---- MODULE Spec2Model ----
(***************************************************************************)
(* Model of the dynamic legend engine of azure-maps-layer-legend           *)
(* (DynamicLegend in src/src/internal/TypingsOverrides.ts) and of the      *)
(* helpers of src/src/helpers/Utils.ts it calls.                           *)
(*                                                                         *)
(* JavaScript values are tagged records.  A string is a sequence of        *)
(* literal pieces, so that concatenation is \o and "<" + "1" differs from  *)
(* "< " + "1".  A number is an exact rational n/d (d > 0, reduced) or NaN; *)
(* the floating point rounding of the engine is not modelled.  An array    *)
(* (a style expression) is a sequence of values; JavaScript index i is     *)
(* TLA+ index i + 1.                                                       *)
(***************************************************************************)
EXTENDS Integers, Sequences, FiniteSets, TLC

(***************************************************************************)
(* JavaScript values                                                       *)
(***************************************************************************)
Undef == [t |-> "undef"]

NaN == [t |-> "nan"]

Str(s) == [t |-> "str", s |-> s]

S1(piece) == Str(<<piece>>)

Bool(b) == [t |-> "bool", b |-> b]

Arr(a) == [t |-> "arr", a |-> a]

Abs(i) == IF i < 0 THEN -i ELSE i

RECURSIVE GCD(_, _)
GCD(a, b) == IF b = 0 THEN a ELSE GCD(b, a % b)

\* the rational n/d in lowest terms, d # 0
Rat(n, d) ==
  LET g == GCD(Abs(n), Abs(d))
      s == IF d < 0 THEN -1 ELSE 1
  IN  [t |-> "num", n |-> s * (n \div g), d |-> s * (d \div g)]

Num(i) == [t |-> "num", n |-> i, d |-> 1]

IsNum(v) == v.t = "num"

\* typeof v
TypeOf(v) ==
  CASE v.t = "undef" -> "undefined"
    [] v.t = "str" -> "string"
    [] v.t \in {"num", "nan", "inf"} -> "number"
    [] v.t = "bool" -> "boolean"
    [] OTHER -> "object"

\* ToBoolean(v), the test of `if (v)`, `!v` and `a || b`
Truthy(v) ==
  CASE v.t = "undef" -> FALSE
    [] v.t = "str" -> v.s # <<>>
    [] v.t = "num" -> v.n # 0
    [] v.t = "nan" -> FALSE
    [] v.t = "bool" -> v.b
    [] OTHER -> TRUE

\* a || b
Or(a, b) == IF Truthy(a) THEN a ELSE b

(***************************************************************************)
(* Number arithmetic: +, -, *, / and < of JavaScript on the modelled       *)
(* numbers.  x / 0 is NaN for x = 0 and an infinity otherwise.             *)
(***************************************************************************)
Inf(sign) == [t |-> "inf", sign |-> sign]

JsAdd(a, b) ==
  IF IsNum(a) /\ IsNum(b) THEN Rat(a.n * b.d + b.n * a.d, a.d * b.d) ELSE NaN

JsSub(a, b) ==
  IF IsNum(a) /\ IsNum(b) THEN Rat(a.n * b.d - b.n * a.d, a.d * b.d) ELSE NaN

JsMul(a, b) ==
  IF IsNum(a) /\ IsNum(b) THEN Rat(a.n * b.n, a.d * b.d) ELSE NaN

JsDiv(a, b) ==
  IF IsNum(a) /\ IsNum(b)
  THEN IF b.n # 0 THEN Rat(a.n * b.d, a.d * b.n)
       ELSE IF a.n = 0 THEN NaN
       ELSE Inf(IF a.n > 0 THEN 1 ELSE -1)
  ELSE NaN

\* a < b; every comparison with NaN is false
JsLt(a, b) == IsNum(a) /\ IsNum(b) /\ a.n * b.d < b.n * a.d

RECURSIVE IntPow(_, _)
IntPow(b, k) == IF k = 0 THEN 1 ELSE b * IntPow(b, k - 1)

\* the integer square root of a perfect square
ISqrt(b) == CHOOSE r \in 0..b : r * r = b

\* Math.pow(base, p) for a positive integer base and an exponent p that is
\* an integer or, when base is a perfect square, a half-integer
MathPow(base, p) ==
  LET b == IF p.d = 2 THEN ISqrt(base.n) ELSE base.n
      k == Abs(p.n)
  IN  IF p.n >= 0 THEN Num(IntPow(b, k)) ELSE Rat(1, IntPow(b, k))

(***************************************************************************)
(* Utils (src/src/helpers/Utils.ts)                                        *)
(***************************************************************************)
DigitChar(k) == <<"0", "1", "2", "3", "4", "5", "6", "7", "8", "9">>[k + 1]

RECURSIVE Digits(_)
Digits(n) ==
  IF n < 10 THEN <<DigitChar(n)>> ELSE Digits(n \div 10) \o <<DigitChar(n % 10)>>

Pad3(k) == <<DigitChar(k \div 100), DigitChar((k \div 10) % 10), DigitChar(k % 10)>>

\* the integer part with the grouping separator of the default locale
RECURSIVE Grouped(_)
Grouped(n) ==
  IF n < 1000 THEN Digits(n)
  ELSE Grouped(n \div 1000) \o <<",">> \o Pad3(n % 1000)

RECURSIVE TrimZeros(_)
TrimZeros(s) ==
  IF s # <<>> /\ s[Len(s)] = "0" THEN TrimZeros(SubSeq(s, 1, Len(s) - 1)) ELSE s

\* Number.prototype.toLocaleString(undefined, undefined): grouped integer
\* part and at most three fraction digits
ToLocaleString(v) ==
  IF v.t = "nan" THEN <<"NaN">>
  ELSE IF v.t = "inf" THEN (IF v.sign < 0 THEN <<"-">> ELSE <<>>) \o <<"Infinity">>
  ELSE
    LET scaled == (2 * Abs(v.n) * 1000 + v.d) \div (2 * v.d)
        frac   == TrimZeros(Pad3(scaled % 1000))
    IN  (IF v.n < 0 /\ scaled # 0 THEN <<"-">> ELSE <<>>)
        \o Grouped(scaled \div 1000)
        \o (IF frac = <<>> THEN <<>> ELSE <<".">> \o frac)

\* Utils.getString(val, resx, locales, numberFormat) with locales and
\* numberFormat undefined; resx is a function from strings to strings
getString(val, resx) ==
  IF TypeOf(val) # "undefined"
  THEN IF TypeOf(val) = "number" THEN Str(ToLocaleString(val))
       ELSE IF val.t = "str" /\ val.s # <<>>
            THEN IF val.s \in DOMAIN resx /\ resx[val.s] # <<>>
                 THEN Str(resx[val.s]) ELSE val
            ELSE IF val.t = "str" THEN Str(<<>>) ELSE val
  ELSE Str(<<>>)

\* Utils.decimalPlaces(num): the digits right of the decimal point
decimalPlaces(num) ==
  IF IsNum(num) /\ \E k \in 0..6 : (num.n * IntPow(10, k)) % num.d = 0
  THEN CHOOSE k \in 0..6 :
         /\ (num.n * IntPow(10, k)) % num.d = 0
         /\ \A j \in 0..(k - 1) : (num.n * IntPow(10, j)) % num.d # 0
  ELSE 0

\* Math.round(x): the nearest integer, halves towards +Infinity
MathRound(x) == IF IsNum(x) THEN Num((2 * x.n + x.d) \div (2 * x.d)) ELSE x

\* Utils.round(num, decimals)
round(num, decimals) ==
  LET factorOfTen == Num(IntPow(10, decimals))
  IN  JsDiv(MathRound(JsMul(num, factorOfTen)), factorOfTen)

(***************************************************************************)
(* DynamicLegend helpers (src/src/internal/TypingsOverrides.ts)            *)
(***************************************************************************)
\* JavaScript exp[i] and exp.length of an array value
At(exp, i) == IF i + 1 \in DOMAIN exp THEN exp[i + 1] ELSE Undef

\* DynamicLegend._isExp(obj)
_isExp(obj) == obj.t = "arr" /\ Len(obj.a) > 0 /\ TypeOf(obj.a[1]) = "string"

\* DynamicLegend._parseInputGetter(input)
_parseInputGetter(input) ==
  IF input.t = "arr" /\ At(input.a, 0) = S1("get") /\ TypeOf(At(input.a, 1)) = "string"
  THEN At(input.a, 1)
  ELSE Undef

\* _getInterpFn without the closure returned for a range of no extent
_getInterpFnOfAnyRange(interpExp, minValue, maxValue) ==
  IF At(interpExp.a, 0) = S1("linear")
  THEN [t |-> "fn", kind |-> "linear", minValue |-> minValue,
        difference |-> JsSub(maxValue, minValue)]
  ELSE IF At(interpExp.a, 0) = S1("exponential")
  THEN [t |-> "fn", kind |-> "exponential", minValue |-> minValue,
        difference |-> JsSub(maxValue, minValue), base |-> At(interpExp.a, 1)]
  ELSE Undef

\* DynamicLegend._getInterpFn(interpExp, minValue, maxValue): the returned
\* closure is a record of what it captures, Undef when none is returned
_getInterpFn(interpExp, minValue, maxValue) ==
  LET type       == At(interpExp.a, 0)
      difference == JsSub(maxValue, minValue)
  IN  IF difference = Num(0) THEN [t |-> "fn", kind |-> "zero"]
      ELSE IF type = S1("linear")
      THEN [t |-> "fn", kind |-> "linear", minValue |-> minValue, difference |-> difference]
      ELSE IF type = S1("exponential")
      THEN [t |-> "fn", kind |-> "exponential", minValue |-> minValue,
            difference |-> difference, base |-> At(interpExp.a, 1)]
      ELSE Undef

\* CallInterpFn with the progress of the linear closure measured from 0
CallInterpFnFromZero(interpFn, x) ==
  CASE interpFn.kind = "zero" -> Num(0)
    [] interpFn.kind = "linear" -> JsDiv(x, interpFn.difference)
    [] interpFn.kind = "exponential" ->
         JsDiv(JsSub(MathPow(interpFn.base, JsSub(x, interpFn.minValue)), Num(1)),
               JsSub(MathPow(interpFn.base, interpFn.difference), Num(1)))

\* the call interpFn(x) of a closure returned by _getInterpFn
CallInterpFn(interpFn, x) ==
  CASE interpFn.kind = "zero" -> Num(0)
    [] interpFn.kind = "linear" ->
         JsDiv(JsSub(x, interpFn.minValue), interpFn.difference)
    [] interpFn.kind = "exponential" ->
         JsDiv(JsSub(MathPow(interpFn.base, JsSub(x, interpFn.minValue)), Num(1)),
               JsSub(MathPow(interpFn.base, interpFn.difference), Num(1)))

\* the colours of the built in image templates
defaultColors ==
  [c \in {"black", "blue", "darkblue", "red", "yellow"} |->
     CASE c = "black" -> "#231f20"
       [] c = "blue" -> "#1a73aa"
       [] c = "darkblue" -> "#003963"
       [] c = "red" -> "#ef4c4c"
       [] c = "yellow" -> "#f2c851"]

StartsWith(s, prefix) ==
  Len(s) >= Len(prefix) /\ SubSeq(s, 1, Len(prefix)) = prefix

\* s.replace(prefix, '') for a string s that starts with the first piece of
\* prefix
DropPrefix(s, prefix) ==
  IF StartsWith(s, prefix) THEN SubSeq(s, Len(prefix) + 1, Len(s)) ELSE s

\* DynamicLegend._getImage(map, imgName); map is [userImages: set of names]
\* or Undef
_getImage(map, imgName) ==
  IF map # Undef /\ imgName # S1("none")
  THEN IF imgName.s \in map.userImages
       THEN Str(<<"src:">> \o imgName.s)
       ELSE
         LET n == imgName.s
             template == IF StartsWith(n, <<"marker">>) THEN "marker"
                         ELSE IF StartsWith(n, <<"pin", "-", "round">>) THEN "pin-round"
                         ELSE IF StartsWith(n, <<"pin">>) THEN "pin"
                         ELSE ""
             color == CASE template = "marker" -> DropPrefix(n, <<"marker", "-">>)
                        [] template = "pin-round" -> DropPrefix(n, <<"pin", "-", "round", "-">>)
                        [] template = "pin" -> DropPrefix(n, <<"pin", "-">>)
                        [] OTHER -> <<>>
         IN  IF template # "" /\ Len(color) = 1 /\ color[1] \in DOMAIN defaultColors
             THEN Str(<<"template:", template, defaultColors[color[1]]>>)
             ELSE Undef
  ELSE Undef

\* a CategoryLegendItem with no field set
EmptyItem == [t |-> "obj", color |-> Undef, shapeSize |-> Undef, shape |-> Undef, label |-> Undef]

\* DynamicLegend._getValue(val, type, legendControl)
_getValue(val, type, legendControl) ==
  LET isString == TypeOf(val) = "string"
  IN  IF type = "color" /\ isString
      THEN [EmptyItem EXCEPT !.color = val]
      ELSE IF type = "scale" /\ TypeOf(val) = "number"
      THEN [EmptyItem EXCEPT !.shapeSize = IF val = Num(0) THEN Rat(1, 100) ELSE val]
      ELSE IF type = "image" /\ isString /\ legendControl._map # Undef
      THEN LET img == _getImage(legendControl._map, val)
           IN  IF Truthy(img) THEN [EmptyItem EXCEPT !.shape = img] ELSE Undef
      ELSE Undef

\* _getSubtitle with the property name of the input getter preferred to the
\* layer metadata by the 'auto' method
_getSubtitleGetterFirst(method0, exp, layer) ==
  LET method   == Or(method0, S1("auto"))
      metadata == layer.metadata
      id       == layer.id
      Meta(k)  == IF k \in DOMAIN metadata THEN Str(metadata[k]) ELSE Undef
  IN  IF method = S1("none") THEN Undef
      ELSE IF method = S1("auto")
      THEN Or(_parseInputGetter(exp), Or(Or(Meta(<<"title">>), Meta(<<"subtitle">>)), id))
      ELSE IF method = S1("expression")
      THEN Or(_parseInputGetter(exp), id)
      ELSE Or(Meta(method.s), Str(<<>>))

\* DynamicLegend._getSubtitle(method, exp, layer)
_getSubtitle(method0, exp, layer) ==
  LET method   == Or(method0, S1("auto"))
      metadata == layer.metadata
      id       == layer.id
      Meta(k)  == IF k \in DOMAIN metadata THEN Str(metadata[k]) ELSE Undef
  IN  IF method = S1("none") THEN Undef
      ELSE IF method = S1("auto")
      THEN Or(Or(Meta(<<"title">>), Meta(<<"subtitle">>)), id)
      ELSE IF method = S1("expression")
      THEN Or(_parseInputGetter(exp), id)
      ELSE Or(Meta(method.s), Str(<<>>))

\* DynamicLegend._getFooter(method, layer)
_getFooter(method0, layer) ==
  LET method   == Or(method0, S1("auto"))
      metadata == layer.metadata
      Meta(k)  == IF k \in DOMAIN metadata THEN Str(metadata[k]) ELSE Undef
  IN  IF method = S1("auto")
      THEN Or(Or(Or(Meta(<<"footer">>), Meta(<<"description">>)), Meta(<<"abstract">>)),
              Str(<<>>))
      ELSE IF method # S1("none")
      THEN Or(Meta(method.s), Str(<<>>))
      ELSE Undef

(***************************************************************************)
(* Shape parsers.  A parser returns a descriptor, Undef when it declines,  *)
(* or Thrown when the JavaScript raises a TypeError.                       *)
(***************************************************************************)
Thrown == [t |-> "throw"]

\* the outcome of a loop over the stops: the collected sequence, or Declined
\* when the loop left the parser with a bare `return`
Declined == [ok |-> FALSE]

Collected(seq) == [ok |-> TRUE, seq |-> seq]

\* window.stop, what the identifier `stop` denotes outside the loop of
\* _parseMatch, where no local of that name is in scope
GlobalStop == [t |-> "fn", kind |-> "window.stop"]

\* `${a} - ${b}` and '<' + a on strings
Concat(a, b) == Str(a.s \o b.s)

\* StepStops with the label of the previous threshold never advanced
RECURSIVE StepStopsStaleLabel(_, _, _, _, _, _)
StepStopsStaleLabel(exp, i, lastLabel, items, type, legendControl) ==
  IF i >= Len(exp) THEN Collected(items)
  ELSE
    LET stop == _getValue(At(exp, i + 1), type, legendControl)
    IN  IF ~Truthy(stop) THEN Declined
        ELSE IF i = Len(exp) - 2
        THEN StepStopsStaleLabel(exp, i + 2, lastLabel,
                                 Append(items, [stop EXCEPT !.label = Concat(S1(">"), lastLabel)]),
                                 type, legendControl)
        ELSE
          LET l == getString(At(exp, i + 2), legendControl.resx)
          IN  StepStopsStaleLabel(exp, i + 2, lastLabel,
                                  Append(items, [stop EXCEPT !.label =
                                                   Concat(Concat(lastLabel, S1(" - ")), l)]),
                                  type, legendControl)

\* the loop over the stops of _parseStep from index i on
RECURSIVE StepStops(_, _, _, _, _, _)
StepStops(exp, i, lastLabel, items, type, legendControl) ==
  IF i >= Len(exp) THEN Collected(items)
  ELSE
    LET stop == _getValue(At(exp, i + 1), type, legendControl)
    IN  IF ~Truthy(stop) THEN Declined
        ELSE IF i = Len(exp) - 2
        THEN StepStops(exp, i + 2, lastLabel,
                       Append(items, [stop EXCEPT !.label = Concat(S1(">"), lastLabel)]),
                       type, legendControl)
        ELSE
          LET l == getString(At(exp, i + 2), legendControl.resx)
          IN  StepStops(exp, i + 2, l,
                        Append(items, [stop EXCEPT !.label =
                                         Concat(Concat(lastLabel, S1(" - ")), l)]),
                        type, legendControl)

\* DynamicLegend._parseStep(layer, exp, type, legendType, legendControl)
_parseStep(layer, exp, type, legendType, legendControl) ==
  IF Len(exp) >= 5 /\ Len(exp) % 2 = 1
  THEN
    LET base      == At(exp, 2)
        baseItem  == _getValue(base, type, legendControl)
        lastLabel == getString(At(exp, 3), legendControl.resx)
        items     == StepStops(exp, 3, lastLabel,
                               <<[baseItem EXCEPT !.label = Concat(S1("<"), lastLabel)]>>,
                               type, legendControl)
    IN  IF \/ (type \in {"color", "image"} /\ TypeOf(base) # "string")
           \/ (type = "scale" /\ TypeOf(base) # "number")
        THEN Undef
        ELSE IF ~Truthy(baseItem) THEN Undef
        ELSE IF ~items.ok THEN Undef
        ELSE [type |-> "category",
              items |-> items.seq,
              subtitle |-> Or(legendType.subtitle,
                              _getSubtitle(legendType.subtitleFallback, At(exp, 1), layer)),
              footer |-> Or(legendType.footer, _getFooter(legendType.footerFallback, layer)),
              layout |-> IF type # "image" THEN S1("column-reverse") ELSE S1("column"),
              collapse |-> Bool(type = "color")]
  ELSE Undef

\* MatchStops with every item put in front of the items collected so far
RECURSIVE MatchStopsPrepend(_, _, _, _, _)
MatchStopsPrepend(exp, i, items, type, legendControl) ==
  IF i >= Len(exp) - 1 THEN Collected(items)
  ELSE
    LET stop == _getValue(At(exp, i + 1), type, legendControl)
    IN  IF ~Truthy(stop) THEN Declined
        ELSE MatchStopsPrepend(exp, i + 2, <<[stop EXCEPT !.label = At(exp, i)]>> \o items,
                               type, legendControl)

\* the loop over the label/output pairs of _parseMatch from index i on
RECURSIVE MatchStops(_, _, _, _, _)
MatchStops(exp, i, items, type, legendControl) ==
  IF i >= Len(exp) - 1 THEN Collected(items)
  ELSE
    LET stop == _getValue(At(exp, i + 1), type, legendControl)
    IN  IF ~Truthy(stop) THEN Declined
        ELSE MatchStops(exp, i + 2, Append(items, [stop EXCEPT !.label = At(exp, i)]),
                        type, legendControl)

\* DynamicLegend._parseMatch(layer, exp, type, legendType, legendControl)
_parseMatch(layer, exp, type, legendType, legendControl) ==
  IF Len(exp) >= 5 /\ Len(exp) % 2 = 1
  THEN
    LET items    == MatchStops(exp, 2, <<>>, type, legendControl)
        fallback == _getValue(At(exp, Len(exp) - 1), type, legendControl)
    IN  IF ~items.ok THEN Undef
        ELSE IF ~Truthy(GlobalStop) THEN Undef
        ELSE IF fallback = Undef THEN Thrown
        ELSE [type |-> "category",
              items |-> Append(items.seq, [fallback EXCEPT !.label = S1("no data")]),
              subtitle |-> Or(legendType.subtitle,
                              _getSubtitle(legendType.subtitleFallback, At(exp, 1), layer)),
              footer |-> Or(legendType.footer, _getFooter(legendType.footerFallback, layer)),
              collapse |-> Bool(type = "color")]
  ELSE Undef

\* the minimum offset space required between labels
minLabelOffset == Rat(5, 100)

\* the loop over the stops of a colour interpolation from index i on
RECURSIVE GradientStops(_, _, _, _, _)
GradientStops(exp, i, lastOffset, stops, interpFn) ==
  IF i >= Len(exp) THEN Collected(stops)
  ELSE
    LET label    == At(exp, i)
        output   == At(exp, i + 1)
        offset   == CallInterpFn(interpFn, label)
        tooClose == JsLt(JsSub(offset, lastOffset), minLabelOffset)
    IN  IF TypeOf(output) # "string" THEN Declined
        ELSE GradientStops(exp, i + 2,
                           IF tooClose THEN offset ELSE lastOffset,
                           Append(stops, [offset |-> offset,
                                          label |-> IF tooClose THEN Undef ELSE label,
                                          color |-> output]),
                           interpFn)

\* the loop over the stops of a scale interpolation from index i on
RECURSIVE ScaleItems(_, _, _)
ScaleItems(exp, i, items) ==
  IF i >= Len(exp) THEN Collected(items)
  ELSE
    LET label  == At(exp, i)
        output == At(exp, i + 1)
    IN  IF TypeOf(output) # "number" THEN Declined
        ELSE ScaleItems(exp, i + 2,
                        Append(items, [EmptyItem EXCEPT
                                         !.shapeSize = IF output = Num(0)
                                                       THEN Rat(1, 100) ELSE output,
                                         !.label = label]))

Max(a, b) == IF a > b THEN a ELSE b

\* InsertBeforeLast with the item added after the last one
InsertAtEnd(items, item) == Append(items, item)

\* items.splice(items.length - 1, 0, item)
InsertBeforeLast(items, item) ==
  SubSeq(items, 1, Len(items) - 1) \o <<item>> \o <<items[Len(items)]>>

\* DynamicLegend._parseInterpolation(layer, exp, type, legendType)
_parseInterpolation(layer, exp, type, legendType) ==
  IF Len(exp) >= 7 /\ Len(exp) % 2 = 1
  THEN
    LET subtitle == Or(legendType.subtitle,
                       _getSubtitle(legendType.subtitleFallback, At(exp, 2), layer))
        footer   == Or(legendType.footer, _getFooter(legendType.footerFallback, layer))
        minLabel == At(exp, 3)
        maxLabel == At(exp, Len(exp) - 2)
        interpFn == _getInterpFn(At(exp, 1), minLabel, maxLabel)
    IN  IF type = "color"
        THEN IF interpFn # Undef
             THEN LET stops == GradientStops(exp, 3, Num(-1), <<>>, interpFn)
                  IN  IF ~stops.ok THEN Undef
                      ELSE [type |-> "gradient", stops |-> stops.seq,
                            subtitle |-> subtitle, footer |-> footer]
             ELSE Undef
        ELSE IF type = "scale"
        THEN LET items == ScaleItems(exp, 3, <<>>)
             IN  IF ~items.ok THEN Undef
                 ELSE IF Len(exp) = 7 /\ interpFn = Undef THEN Thrown
                 ELSE
                   LET dx        == JsSub(maxLabel, minLabel)
                       midLabel  == JsAdd(minLabel, JsDiv(dx, Num(2)))
                       minOutput == At(exp, 4)
                       maxOutput == At(exp, 6)
                       midOutput == JsAdd(JsMul(CallInterpFn(interpFn, midLabel),
                                                JsSub(maxOutput, minOutput)),
                                          minOutput)
                       rounded   == round(midLabel,
                                          Max(decimalPlaces(minLabel),
                                              decimalPlaces(maxLabel)) + 1)
                   IN  [type |-> "category",
                        items |-> IF Len(exp) = 7
                                  THEN InsertBeforeLast(items.seq,
                                         [EmptyItem EXCEPT !.shapeSize = midOutput,
                                                           !.label = rounded])
                                  ELSE items.seq,
                        layout |-> S1("column-reverse"),
                        subtitle |-> subtitle,
                        footer |-> footer,
                        fitItems |-> Bool(TRUE)]
        ELSE Undef
  ELSE Undef

(***************************************************************************)
(* Property router: _parseStyle and parse.  A descriptor is a record whose *)
(* fields are the properties set on the JavaScript object; a field that is *)
(* not set reads as Undef.                                                 *)
(***************************************************************************)
\* obj[property]
Get(obj, property) == IF property \in DOMAIN obj THEN obj[property] ELSE Undef

\* obj[property] = value
Put(obj, property, value) ==
  [f \in DOMAIN obj \cup {property} |-> IF f = property THEN value ELSE obj[f]]

\* Object.assign(target, source)
ObjectAssign(target, source) ==
  [f \in DOMAIN target \cup DOMAIN source |->
     IF f \in DOMAIN source THEN source[f] ELSE target[f]]

\* the gradient branch of _parseStyle with overrideLabels set: every label
\* is cleared, then the first is 'low' and the last is 'high'
OverrideLabels(stops) ==
  [i \in DOMAIN stops |->
     [stops[i] EXCEPT !.label = IF i = Len(stops) THEN S1("high")
                                ELSE IF i = 1 THEN S1("low")
                                ELSE Undef]]

\* the value _parseStyle reads for a style property: opt[property], or
\* opt.iconOptions.image for the image of a symbol layer
StyleExp(layer, property, type) ==
  LET opt  == layer.opt
      exp0 == Get(opt, property)
  IN  IF ~Truthy(exp0) /\ Truthy(Get(opt, "iconOptions"))
         /\ property = "image" /\ type = "image"
      THEN Get(opt.iconOptions, property) ELSE exp0

\* the switch of _parseStyle on the tag exp[0] of the expression
ParseTagged(layer, exp, type, legendType, legendControl) ==
  CASE At(exp, 0) = S1("step") -> _parseStep(layer, exp, type, legendType, legendControl)
    [] At(exp, 0) = S1("match") -> _parseMatch(layer, exp, type, legendType, legendControl)
    [] At(exp, 0) = S1("interpolate") -> _parseInterpolation(layer, exp, type, legendType)
    [] OTHER -> Undef

\* l with the stops relabelled when overrideLabels is set
WithOverriddenLabels(l, overrideLabels) ==
  IF overrideLabels THEN [l EXCEPT !.stops = OverrideLabels(l.stops)] ELSE l

\* Object.assign(l, defaults) when the defaults are set
WithDefaults(l, defaults) == IF defaults # Undef THEN ObjectAssign(l, defaults) ELSE l

\* the switch of _parseStyle on l.type: the defaults of the legend type are
\* assigned over the parsed descriptor
WithTypeDefaults(l, legendType, overrideLabels) ==
  CASE l.type = "category" -> WithDefaults(l, legendType.defaultCategory)
    [] l.type = "gradient" ->
         WithDefaults(WithOverriddenLabels(l, overrideLabels), legendType.defaultGradient)
    [] OTHER -> WithDefaults(l, legendType.defaultImage)

\* l[zoom] = opt[zoom] when the option is a number
WithZoom(l, opt, zoom) ==
  IF TypeOf(Get(opt, zoom)) = "number" THEN Put(l, zoom, opt[zoom]) ELSE l

\* legends.push(l); return l
Pushed(l, legends) == [ret |-> l, legends |-> Append(legends, l)]

\* what _parseStyle does with the descriptor l its switch on the tag made
StyleResult(l, opt, legendType, legends, overrideLabels) ==
  IF l = Thrown THEN [ret |-> Thrown, legends |-> legends]
  ELSE IF l # Undef
  THEN Pushed(Put(WithZoom(WithZoom(WithTypeDefaults(l, legendType, overrideLabels),
                                    opt, "minZoom"),
                           opt, "maxZoom"),
                  "cssClass", legendType.cssClass),
              legends)
  ELSE [ret |-> Undef, legends |-> legends]

\* the body of _parseStyle for the value exp of the style property
ParseStyleOf(exp, layer, type, legendType, legendControl, legends, overrideLabels) ==
  IF layer.hasGetOptions /\ _isExp(exp)
  THEN StyleResult(ParseTagged(layer, exp.a, type, legendType, legendControl),
                   layer.opt, legendType, legends, overrideLabels)
  ELSE [ret |-> Undef, legends |-> legends]

\* DynamicLegend._parseStyle(layer, property, type, legendType, legendControl,
\* legends, overrideLabels): ret is the returned descriptor, Undef or
\* Thrown; legends is the array after the call
_parseStyle(layer, property, type, legendType, legendControl, legends, overrideLabels) ==
  ParseStyleOf(StyleExp(layer, property, type), layer, type, legendType, legendControl,
               legends, overrideLabels)

\* DynamicLegend._overrideCategoryValue(legend, property, value)
_overrideCategoryValue(legend, property, value) ==
  IF legend # Undef /\ legend.type = "category" /\ ~Truthy(Get(legend, property))
  THEN Put(legend, property, value)
  ELSE legend

\* the running state of one call of parse: the legends array, the log of the
\* _parseStyle calls made so far (the property, its kind, the value read for
\* it and what the call returned), the value the last call returned, and
\* whether an exception has left parse
NoCalls == [legends |-> <<>>, calls |-> <<>>, ret |-> Undef, threw |-> FALSE]

\* the running state after a call of _parseStyle on the value exp returned r
Logged(ctx, r, property, type, exp) ==
  [legends |-> r.legends,
   calls   |-> Append(ctx.calls, [property |-> property, type |-> type,
                                  exp |-> exp, ret |-> r.ret]),
   ret     |-> r.ret,
   threw   |-> r.ret = Thrown]

\* parseStyle(layer, property, type, legendType, legendControl, legends,
\* overrideLabels) as a statement of parse
CallParseStyle(ctx, layer, property, type, legendType, legendControl, overrideLabels) ==
  IF ctx.threw THEN ctx
  ELSE Logged(ctx,
              _parseStyle(layer, property, type, legendType, legendControl,
                          ctx.legends, overrideLabels),
              property, type, StyleExp(layer, property, type))

\* the running state with l in place of the descriptor the last call returned,
\* which is the object at the end of the legends array
Replaced(ctx, l) == [ctx EXCEPT !.ret = l, !.legends[Len(ctx.legends)] = l]

\* overrideCategoryValue(legend, property, value) on the descriptor the last
\* call returned
CallOverride(ctx, property, value) ==
  IF ctx.threw \/ ctx.ret = Undef THEN ctx
  ELSE Replaced(ctx, _overrideCategoryValue(ctx.ret, property, value))

\* radiusLegend.items.forEach(item => { item.shapeSize *= 2; })
DoubleShapeSizes(ctx) ==
  IF ~ctx.threw /\ ctx.ret # Undef /\ ctx.ret.type = "category"
  THEN Replaced(ctx, [ctx.ret EXCEPT !.items =
                        [i \in DOMAIN ctx.ret.items |->
                           [ctx.ret.items[i] EXCEPT !.shapeSize = JsMul(@, Num(2))]]])
  ELSE ctx

\* OverrideColor with the colour written to the items that have none, the
\* descriptor left as it is
OverrideColorOfItems(ctx, opt, property) ==
  IF TypeOf(Get(opt, property)) = "string" /\ ~ctx.threw /\ ctx.ret # Undef
     /\ ctx.ret.type = "category"
  THEN Replaced(ctx, [ctx.ret EXCEPT !.items =
                        [i \in DOMAIN ctx.ret.items |->
                           IF Truthy(ctx.ret.items[i].color) THEN ctx.ret.items[i]
                           ELSE [ctx.ret.items[i] EXCEPT !.color = Get(opt, property)]]])
  ELSE ctx

\* overrideCategoryValue(legend, 'color', opt[property]) when the option is a
\* string
OverrideColor(ctx, opt, property) ==
  IF TypeOf(Get(opt, property)) = "string"
  THEN CallOverride(ctx, "color", Get(opt, property)) ELSE ctx

\* s.replace(/\&amp;/g, '&')
ReplaceAmp(s) == [i \in DOMAIN s |-> IF s[i] = "&amp;" THEN "&" ELSE s[i]]

\* the image legend pushed for the active layer al that matches sublayer sl
OgcLegend(al, sl, defaultImage) ==
  [type |-> "image",
   url |-> Str(ReplaceAmp(al.styles[1].legendUrl.s)),
   subtitle |-> Or(Or(Or(Get(al, "title"), Get(al, "subtitle")), sl.id), Str(<<>>)),
   footer |-> Or(Or(Get(al, "description"), Get(al, "abstract")), Str(<<>>)),
   minZoom |-> Get(al, "minZoom"),
   maxZoom |-> Get(al, "maxZoom"),
   maxHeight |-> Get(defaultImage, "maxHeight"),
   maxWidth |-> Get(defaultImage, "maxWidth")]

\* the two nested loops of the OgcMapLayer branch, from active layer a and
\* sublayer i on
RECURSIVE OgcLegends(_, _, _, _, _, _)
OgcLegends(activeLayers, sublayers, a, i, defaultImage, legends) ==
  IF a > Len(activeLayers) THEN legends
  ELSE IF i > Len(sublayers)
  THEN OgcLegends(activeLayers, sublayers, a + 1, 1, defaultImage, legends)
  ELSE
    LET al     == activeLayers[a]
        sl     == sublayers[i]
        match  == \/ (TypeOf(al) = "string" /\ al = sl.id)
                  \/ (al.t = "obj" /\ Get(al, "id") = sl.id)
        styles == IF al.t = "obj" /\ "styles" \in DOMAIN al THEN al.styles ELSE <<>>
        push   == /\ match
                  /\ Len(styles) > 0
                  /\ Truthy(styles[1].legendUrl)
    IN  OgcLegends(activeLayers, sublayers, a, i + 1, defaultImage,
                   IF push THEN Append(legends, OgcLegend(al, sl, defaultImage))
                   ELSE legends)

\* Utils.getLayer(layer, map)
getLayer(layer, map) ==
  IF TypeOf(layer) = "string"
  THEN IF layer.s \in DOMAIN map.layers THEN map.layers[layer.s] ELSE Undef
  ELSE layer

\* the BubbleLayer branch of parse
ParseBubble(layer, legendType, legendControl) ==
  OverrideColor(
    DoubleShapeSizes(
      CallParseStyle(
        CallParseStyle(NoCalls, layer, "color", "color", legendType, legendControl, FALSE),
        layer, "radius", "scale", legendType, legendControl, FALSE)),
    layer.opt, "color")

\* ParseLineAfter with the stroke colour parsed whether or not there is a
\* stroke gradient
ParseLineAfterColorAlways(g, layer, legendType, legendControl) ==
  OverrideColor(
    CallOverride(
      CallParseStyle(
        CallOverride(
          CallParseStyle(CallOverride(g, "shape", S1("line")),
                         layer, "strokeColor", "color", legendType, legendControl, TRUE),
          "shape", S1("line")),
        layer, "strokeWidth", "scale", legendType, legendControl, FALSE),
      "shape", S1("line")),
    layer.opt, "strokeColor")

\* the LineLayer branch of parse after the strokeGradient call left g: the
\* stroke colour is only parsed when there is no stroke gradient
ParseLineAfter(g, layer, legendType, legendControl) ==
  IF g.ret # Undef
  THEN CallOverride(
         CallParseStyle(CallOverride(g, "shape", S1("line")),
                        layer, "strokeWidth", "scale", legendType, legendControl, FALSE),
         "shape", S1("line"))
  ELSE OverrideColor(
         CallOverride(
           CallParseStyle(
             CallOverride(
               CallParseStyle(g, layer, "strokeColor", "color", legendType,
                              legendControl, TRUE),
               "shape", S1("line")),
             layer, "strokeWidth", "scale", legendType, legendControl, FALSE),
           "shape", S1("line")),
         layer.opt, "strokeColor")

\* the LineLayer branch of parse
ParseLine(layer, legendType, legendControl) ==
  ParseLineAfter(
    CallParseStyle(NoCalls, layer, "strokeGradient", "color", legendType, legendControl, TRUE),
    layer, legendType, legendControl)

\* the polygon branch of parse after the fillPattern call left f
ParsePolygonAfter(f, layer, legendType, legendControl) ==
  IF f.ret # Undef THEN CallOverride(f, "shape", S1("square"))
  ELSE CallOverride(
         CallParseStyle(f, layer, "fillColor", "color", legendType, legendControl, FALSE),
         "shape", S1("square"))

\* the PolygonLayer and PolygonExtrusionLayer branch of parse
ParsePolygon(layer, legendType, legendControl) ==
  ParsePolygonAfter(
    CallParseStyle(NoCalls, layer, "fillPattern", "image", legendType, legendControl, FALSE),
    layer, legendType, legendControl)

\* the SymbolLayer branch of parse for a literal image img: the size is
\* parsed and the shape of the image overrides the shape of the category
ParseSymbolSize(img, layer, legendType, legendControl) ==
  IF img # Undef /\ Truthy(img.shape)
  THEN CallOverride(
         CallParseStyle(NoCalls, layer, "size", "scale", legendType, legendControl, FALSE),
         "shape", img.shape)
  ELSE NoCalls

\* the SymbolLayer branch of parse for the icon options
ParseSymbolOf(iconOptions, layer, legendType, legendControl) ==
  IF Truthy(iconOptions)
  THEN IF TypeOf(Get(iconOptions, "image")) = "string"
       THEN IF Get(iconOptions, "size").t = "arr"
            THEN ParseSymbolSize(_getValue(iconOptions.image, "image", legendControl),
                                 layer, legendType, legendControl)
            ELSE NoCalls
       ELSE CallParseStyle(NoCalls, layer, "image", "image", legendType, legendControl, FALSE)
  ELSE NoCalls

\* the SymbolLayer branch of parse
ParseSymbol(layer, legendType, legendControl) ==
  ParseSymbolOf(Get(layer.opt, "iconOptions"), layer, legendType, legendControl)

\* the OgcMapLayer branch of parse
ParseOgc(layer, legendType) ==
  IF /\ layer._client # Undef
     /\ layer._client._capabilities # Undef
     /\ Get(layer.opt, "activeLayers") # Undef
     /\ "sublayers" \in DOMAIN layer._client._capabilities
  THEN [NoCalls EXCEPT !.legends =
          OgcLegends(layer.opt.activeLayers.a, layer._client._capabilities.sublayers, 1, 1,
                     IF legendType.defaultImage # Undef
                     THEN legendType.defaultImage ELSE [t |-> "obj"],
                     <<>>)]
  ELSE NoCalls

\* the branch of parse for the class of the layer
ParseLayer(layer, legendType, legendControl) ==
  IF layer # Undef /\ Truthy(Get(layer.opt, "visible"))
  THEN CASE layer.kind = "BubbleLayer" -> ParseBubble(layer, legendType, legendControl)
         [] layer.kind = "LineLayer" -> ParseLine(layer, legendType, legendControl)
         [] layer.kind \in {"PolygonLayer", "PolygonExtrusionLayer"} ->
              ParsePolygon(layer, legendType, legendControl)
         [] layer.kind = "HeatMapLayer" ->
              CallParseStyle(NoCalls, layer, "color", "color", legendType, legendControl, TRUE)
         [] layer.kind = "SymbolLayer" -> ParseSymbol(layer, legendType, legendControl)
         [] layer.kind = "OgcMapLayer" -> ParseOgc(layer, legendType)
         [] OTHER -> NoCalls
  ELSE NoCalls

\* what parse returns for the layer and the running state ctx at its end
ParseResult(ctx, layer) ==
  [legends |-> ctx.legends,
   threw   |-> ctx.threw,
   calls   |-> ctx.calls,
   hooked  |-> layer # Undef /\ Truthy(Get(layer.opt, "visible")) /\ layer.kind = "OgcMapLayer"]

\* parse once legendType.layer is resolved to the layer
ParseOf(layer, legendType, legendControl) ==
  ParseResult(ParseLayer(layer, legendType, legendControl), layer)

\* DynamicLegend.parse(legendType, legendControl): legends is the returned
\* array, threw tells that an exception left parse instead, calls logs the
\* _parseStyle calls, and hooked tells that parse has assigned the layer's
\* onActiveLayersChanged
parse(legendType, legendControl) ==
  ParseOf(getLayer(legendType.layer, legendControl._map), legendType, legendControl)

(***************************************************************************)
(* Inputs: the style expressions, layers and legend settings the model     *)
(* explores.                                                               *)
(***************************************************************************)
\* the largest number of threshold/output pairs of a step expression and of
\* label/output pairs of a match expression
MaxPairs == 2

\* the largest number of stops of an interpolate expression
MaxStops == 3

GetRevenue == Arr(<<S1("get"), S1("revenue")>>)

GetZoom == Arr(<<S1("zoom")>>)

Linear == Arr(<<S1("linear")>>)

Exponential(base) == Arr(<<S1("exponential"), Num(base)>>)

CubicBezier == Arr(<<S1("cubic-bezier"), Num(0), Num(0), Num(1), Num(1)>>)

\* the outputs tried for each kind of style property: outputs that
\* normalize for the kind and outputs that do not
Outputs(type) ==
  CASE type = "color" -> {S1("red"), S1("blue"), Num(10)}
    [] type = "scale" -> {Num(0), Num(10), Num(50), S1("red")}
    [] type = "image" -> {Str(<<"marker", "-", "blue">>), S1("gas_station_icon"),
                          S1("unknown_icon")}

\* the images registered in the image sprite of the map
UserImages == {<<"gas_station_icon">>}

\* thresholds of step expressions, keys of match expressions
Thresholds == {Rat(1, 2), Num(1000)}

MatchKeys == {S1("School"), Num(1)}

\* stop inputs of interpolate expressions: two stops of LinearInputs are
\* closer than minLabelOffset of the range; the exponential ones are small
\* enough for base^input to be computed exactly
LinearInputs == {0, 10, 400}

ShortInputs == {0, 10}

ExponentialInputs == {0, 1, 3}

\* x1, y1, x2, y2, ... from the sequences xs and ys of equal length
Interleave(xs, ys) ==
  [i \in 1..(2 * Len(xs)) |-> IF i % 2 = 1 THEN xs[(i + 1) \div 2] ELSE ys[i \div 2]]

NonDecreasing(xs) == \A i \in 1..(Len(xs) - 1) : xs[i] <= xs[i + 1]

StepExps(type) ==
  { Arr(<<S1("step"), GetRevenue, base>> \o Interleave(ts, os)) :
      <<base, ts, os>> \in
        UNION { Outputs(type) \X [1..n -> Thresholds] \X [1..n -> Outputs(type)] :
                n \in 1..MaxPairs } }

MatchExps(type) ==
  { Arr(<<S1("match"), GetRevenue>> \o Interleave(ks, os) \o <<fallback>>) :
      <<ks, os, fallback>> \in
        UNION { [1..n -> MatchKeys] \X [1..n -> Outputs(type)] \X Outputs(type) :
                n \in 1..MaxPairs } }

InterpolateExpsOf(method, inputs, type) ==
  { Arr(<<S1("interpolate"), method, GetRevenue>>
        \o Interleave([i \in DOMAIN xs |-> Num(xs[i])], os)) :
      <<xs, os>> \in
        UNION { {xs \in [1..n -> inputs] : NonDecreasing(xs)} \X [1..n -> Outputs(type)] :
                n \in 2..MaxStops } }

\* the interpolations tried for each kind of style property; the image kind
\* has no interpolation, whatever the method
InterpolateExps(type) ==
  CASE type = "color" ->
         InterpolateExpsOf(Linear, LinearInputs, type)
           \cup InterpolateExpsOf(CubicBezier, ShortInputs, type)
           \cup InterpolateExpsOf(Exponential(4), ExponentialInputs, type)
           \cup InterpolateExpsOf(Exponential(1), ShortInputs, type)
    [] type = "scale" ->
         InterpolateExpsOf(Linear, ShortInputs, type)
           \cup InterpolateExpsOf(CubicBezier, ShortInputs, type)
           \cup InterpolateExpsOf(Exponential(4), ExponentialInputs, type)
           \cup InterpolateExpsOf(Exponential(1), ShortInputs, type)
    [] type = "image" -> InterpolateExpsOf(Linear, ShortInputs, type)

\* expressions of an unsupported shape: an unrecognized tag, and step, match
\* and interpolate expressions that are too short or of even length
OddExps(type) ==
  LET o == CHOOSE v \in Outputs(type) : _getValue(v, type, [_map |-> [userImages |-> UserImages]]) # Undef
  IN  { Arr(<<S1("case"), Arr(<<S1("has"), S1("revenue")>>), o, o>>),
        Arr(<<S1("case"), Arr(<<S1("has"), S1("revenue")>>), o, Arr(<<S1("has"), S1("x")>>), o, o, o>>),
        Arr(<<S1("step"), GetRevenue, o>>),
        Arr(<<S1("step"), GetRevenue, o, Num(1)>>),
        Arr(<<S1("match"), GetRevenue, S1("School"), o>>),
        Arr(<<S1("match"), GetRevenue, o>>),
        Arr(<<S1("interpolate"), Linear, GetRevenue, Num(0), o>>),
        Arr(<<S1("interpolate"), Linear, GetRevenue, Num(0), o, Num(10)>>) }

\* every expression tried on a style property of the given kind
Exps(type) == StepExps(type) \cup MatchExps(type) \cup InterpolateExps(type) \cup OddExps(type)

(***************************************************************************)
(* Layers and legend settings                                              *)
(***************************************************************************)
NoMetadata == [k \in {} |-> <<>>]

Metadatas ==
  { NoMetadata,
    [k \in {<<"title">>} |-> <<"Foo">>],
    [k \in {<<"subtitle">>} |-> <<"Bar">>],
    [k \in {<<"title">>, <<"subtitle">>} |-> IF k = <<"title">> THEN <<"Foo">> ELSE <<"Bar">>],
    [k \in {<<"owner">>} |-> <<"Ann">>],
    [k \in {<<"title">>} |-> <<>>] }

\* a layer of the map: its class, its identifier, its metadata, the options
\* getOptions() returns, and whether parse has assigned its
\* onActiveLayersChanged
Layer(kind, opt) ==
  [t |-> "layer", kind |-> kind, id |-> S1("layer1"), metadata |-> NoMetadata, opt |-> opt,
   hasGetOptions |-> TRUE, hooked |-> FALSE]

CommonOpt == [visible |-> Bool(TRUE), minZoom |-> Num(0), maxZoom |-> Num(24)]

BubbleLayer(color, radius) ==
  Layer("BubbleLayer", ObjectAssign(CommonOpt, [color |-> color, radius |-> radius]))

LineLayer(strokeGradient, strokeColor, strokeWidth) ==
  Layer("LineLayer", ObjectAssign(CommonOpt, [strokeGradient |-> strokeGradient,
                                              strokeColor |-> strokeColor,
                                              strokeWidth |-> strokeWidth]))

PolygonLayer(kind, fillPattern, fillColor) ==
  Layer(kind, ObjectAssign(CommonOpt, [fillPattern |-> fillPattern, fillColor |-> fillColor]))

HeatMapLayer(color) == Layer("HeatMapLayer", ObjectAssign(CommonOpt, [color |-> color]))

SymbolLayer(image, size) ==
  Layer("SymbolLayer",
        ObjectAssign(CommonOpt, [iconOptions |-> [t |-> "obj", image |-> image, size |-> size]]))

\* an OgcMapLayer with its client and active layers
OgcMapLayer(activeLayers, client) ==
  ObjectAssign(Layer("OgcMapLayer", ObjectAssign(CommonOpt, [activeLayers |-> activeLayers])),
               [_client |-> client])

OgcClient == [_capabilities |-> [sublayers |-> <<[id |-> S1("roads")], [id |-> S1("rivers")]>>]]

OgcActive(id, url) ==
  [t |-> "obj", id |-> S1(id), title |-> S1("Title"),
   styles |-> <<[legendUrl |-> Str(url)]>>]

\* the settings of a dynamic legend; layerRef tells whether legendType.layer
\* is the layer instance, its identifier, or an identifier the map does not
\* know
DefaultSettings ==
  [layerRef |-> "instance", subtitle |-> Undef, footer |-> Undef,
   subtitleFallback |-> Undef, footerFallback |-> Undef, cssClass |-> Undef,
   defaultCategory |-> Undef, defaultGradient |-> Undef, defaultImage |-> Undef]

SubtitleFallbacks == {Undef, S1("auto"), S1("expression"), S1("none"), S1("owner")}

Subtitles == {Undef, S1("Sales")}

\* representative expressions for the layers with several style properties
ColorStep(getter) == Arr(<<S1("step"), getter, S1("red"), Num(1), S1("blue")>>)

ColorMatch(getter) == Arr(<<S1("match"), getter, S1("School"), S1("red"), S1("blue")>>)

ColorGradient(getter) ==
  Arr(<<S1("interpolate"), Linear, getter, Num(0), S1("red"), Num(5), S1("yellow"),
        Num(10), S1("blue")>>)

ScaleStep == Arr(<<S1("step"), GetRevenue, Num(2), Num(1), Num(4)>>)

ScaleInterpolate ==
  Arr(<<S1("interpolate"), Linear, GetRevenue, Num(0), Num(10), Num(10), Num(50)>>)

ImageMatch ==
  Arr(<<S1("match"), GetRevenue, S1("School"), S1("gas_station_icon"),
        Str(<<"marker", "-", "blue">>)>>)

\* one style property holds any of the expressions tried for its kind, the
\* other properties of the layer hold plain values
SinglePropertyLayers ==
  { BubbleLayer(e, Num(8)) : e \in Exps("color") }
    \cup { BubbleLayer(S1("#1A73AA"), e) : e \in Exps("scale") }
    \cup { PolygonLayer("PolygonLayer", e, S1("#1E90FF")) : e \in Exps("image") }

\* layers of every class, each style property holding a plain value or a
\* representative expression
RoutedLayers ==
  { LineLayer(g, c, w) :
      g \in {Undef, ColorGradient(GetRevenue)},
      c \in {S1("#1E90FF"), ColorStep(GetRevenue)},
      w \in {Num(2), ScaleStep, ScaleInterpolate} }
    \cup { BubbleLayer(c, r) :
             c \in {S1("#1A73AA"), ColorMatch(GetRevenue)},
             r \in {Num(8), ScaleStep} }
    \cup { PolygonLayer(k, p, c) :
             k \in {"PolygonLayer", "PolygonExtrusionLayer"},
             p \in {Undef, ImageMatch},
             c \in {S1("#1E90FF"), ColorStep(GetRevenue)} }
    \cup { HeatMapLayer(c) : c \in {ColorGradient(GetRevenue), S1("red")} }
    \cup { SymbolLayer(i, z) :
             i \in {Str(<<"marker", "-", "blue">>), S1("unknown_icon"), ImageMatch},
             z \in {Num(1), ScaleInterpolate} }
    \cup { OgcMapLayer(a, c) :
             a \in {Undef,
                    Arr(<<OgcActive("roads", <<"http://legend?a=1", "&amp;", "b=2">>)>>),
                    Arr(<<S1("rivers"), OgcActive("rivers", <<>>)>>)},
             c \in {Undef, [_capabilities |-> Undef], OgcClient} }
    \cup { Layer("SimpleDataLayer", CommonOpt),
           [Layer("HtmlMarkerLayer", <<>>) EXCEPT !.hasGetOptions = FALSE] }

\* the expressions the subtitle and footer rules are tried on
TitledLayers ==
  { BubbleLayer(e, Num(8)) :
      e \in UNION { {ColorStep(g), ColorMatch(g), ColorGradient(g)} :
                    g \in {GetRevenue, GetZoom} } }
    \cup { BubbleLayer(S1("#1A73AA"), ScaleInterpolate) }

\* the layers the defaults of the legend type are tried on: category and
\* gradient descriptors of every parser
DefaultedLayers ==
  { BubbleLayer(S1("#1A73AA"), ScaleStep),
    BubbleLayer(ColorGradient(GetRevenue), Num(8)),
    BubbleLayer(ColorMatch(GetRevenue), ScaleInterpolate),
    HeatMapLayer(ColorGradient(GetRevenue)),
    LineLayer(Undef, S1("#1E90FF"), ScaleStep),
    PolygonLayer("PolygonLayer", ImageMatch, S1("#1E90FF")) }

\* values of defaultCategory, without number formats
CategoryDefaultsTried ==
  { Undef,
    [shape |-> S1("square"), layout |-> S1("row")],
    [color |-> S1("green"), cssClass |-> S1("item-css")] }

\* values of defaultGradient
GradientDefaultsTried ==
  { Undef, [orientation |-> S1("vertical"), barLength |-> Num(100)] }

\* values of the cssClass of the dynamic legend
CssClasses == {Undef, S1("card-css")}

\* the layer and the settings of the dynamic legend at the start
Scenarios ==
  { [layer |-> l, settings |-> DefaultSettings] : l \in SinglePropertyLayers \cup RoutedLayers }
    \cup { [layer |-> [l EXCEPT !.metadata = m],
            settings |-> [DefaultSettings EXCEPT !.subtitle = st, !.subtitleFallback = fb]] :
             l \in TitledLayers, m \in Metadatas, st \in Subtitles, fb \in SubtitleFallbacks }
    \cup { [layer |-> l, settings |-> [DefaultSettings EXCEPT !.layerRef = r]] :
             l \in {BubbleLayer(ColorStep(GetRevenue), Num(8))}, r \in {"id", "unknownId"} }
    \cup { [layer |-> l,
            settings |-> [DefaultSettings EXCEPT !.defaultCategory = dc, !.defaultGradient = dg,
                                                 !.cssClass = css]] :
             l \in DefaultedLayers, dc \in CategoryDefaultsTried,
             dg \in GradientDefaultsTried, css \in CssClasses }

(***************************************************************************)
(* The legend control (src/src/control/LegendControl.ts) and the base      *)
(* control it extends (src/src/control/BaseControl.ts).  A control c is a  *)
(* record of the fields of the object; a method is an operator from the    *)
(* control before the call to the control after it.  c.events collects     *)
(* the events _invokeEvent emits.  Of the DOM the model keeps the cards of *)
(* the content (c._content.cards), whether the toggle button exists        *)
(* (c._btn), whether the control is on a map (c._map, with its container)  *)
(* and the aria-expanded attribute of the container (c.ariaExpanded).      *)
(* The style, visible, zoomBehavior and container options keep their       *)
(* defaults, and the zoom of the map is inside the range of every legend.  *)
(***************************************************************************)
Null == [t |-> "null"]

\* a >= b
JsGe(a, b) == IsNum(a) /\ IsNum(b) /\ a.n * b.d >= b.n * a.d

\* array[idx]
Nth(array, idx) ==
  IF IsNum(idx) /\ idx.d = 1 /\ idx.n >= 0 /\ idx.n < Len(array)
  THEN array[idx.n + 1]
  ELSE Undef

\* array.indexOf(x)
indexOf(array, x) ==
  IF \E i \in 1..Len(array) : array[i] = x
  THEN Num((CHOOSE i \in 1..Len(array) : array[i] = x /\ \A j \in 1..(i - 1) : array[j] # x) - 1)
  ELSE Num(-1)

\* array.splice(idx, 1)
splice(array, idx) ==
  [i \in 1..(Len(array) - 1) |-> IF i <= idx.n THEN array[i] ELSE array[i + 1]]

\* this._invokeEvent(type, args)
_invokeEvent(c, args) == [c EXCEPT !.events = Append(@, args)]

\* BaseControl._setBtnState: the container shows the minimized state only
\* while the toggle button is displayed, and 'toggled' is emitted when the
\* minimized option differs from the state shown
_setBtnState(c) ==
  IF c._btn
  THEN IF c._baseOptions.minimized # (c._baseOptions.minimized /\ c._baseOptions.showToggle)
       THEN _invokeEvent(
              [c EXCEPT !.ariaExpanded =
                          Bool(~(c._baseOptions.minimized /\ c._baseOptions.showToggle))],
              [type |-> "toggled",
               minimized |-> Bool(c._baseOptions.minimized /\ c._baseOptions.showToggle)])
       ELSE [c EXCEPT !.ariaExpanded =
                        Bool(~(c._baseOptions.minimized /\ c._baseOptions.showToggle))]
  ELSE c

\* BaseControl._toggle
_toggle(c) == _setBtnState([c EXCEPT !._baseOptions.minimized = ~@])

\* BaseControl._contentBtnClicked
_contentBtnClicked(c) == IF c._baseOptions.minimized THEN _toggle(c) ELSE c

\* BaseControl._setCardIdx: the index is clamped to the cards of the
\* content and becomes _currentIdx; the card whose rel is that index is the
\* one displayed (carousel, accordion) or scrolled into view (list)
_setCardIdx(c, idx) ==
  IF c._content # Null
  THEN LET numCards == Len(c._content.cards)
           clamped == IF JsGe(idx, Num(numCards)) THEN Num(numCards - 1) ELSE idx
       IN  [c EXCEPT !._currentIdx =
              IF JsLt(clamped, Num(0)) /\ c._baseOptions.layout # "accordion"
              THEN Num(0)
              ELSE clamped]
  ELSE c

\* the legend of the options whose card _setCardIdx has put in view: the
\* card whose rel is _currentIdx, if there is one
InView(c) ==
  IF \E i \in 1..Len(c._content.cards) : c._content.cards[i].rel = c._currentIdx
  THEN (CHOOSE card \in {c._content.cards[i] : i \in 1..Len(c._content.cards)} :
          card.rel = c._currentIdx).of
  ELSE Null

\* LegendControl._setItemIndex after its call of _setCardIdx.  The event
\* carries legendIdx, legend and type; inView is added to it to record which
\* card was in view when it was emitted
_setItemIndexOf(c, legends) ==
  _invokeEvent(
    [c EXCEPT !._currentLegend =
       IF c._currentIdx # Undef
       THEN IF JsLt(c._currentIdx, Num(Len(legends))) THEN Nth(legends, c._currentIdx) ELSE Null
       ELSE Null],
    [type |-> "legendfocused",
     legendIdx |-> c._currentIdx,
     legend |-> IF c._currentIdx # Undef
                THEN IF JsLt(c._currentIdx, Num(Len(legends)))
                     THEN Nth(legends, c._currentIdx)
                     ELSE Null
                ELSE Null,
     inView |-> InView(c)])

_setItemIndex(c, idx) ==
  IF c._content # Null
  THEN _setItemIndexOf(_setCardIdx(c, idx), c._options.legends)
  ELSE c

\* LegendControl.setLegendIdx
setLegendIdx(c, idx) == _setItemIndex(c, idx)

\* Math.max(a, b) and Math.min(a, b) of two numbers
MathMax(a, b) == IF JsLt(a, b) THEN b ELSE a

MathMin(a, b) == IF JsLt(b, a) THEN b ELSE a

\* Utils.getNumber
getNumber(obj, property, minValue, defaultValue) ==
  IF IsNum(Get(obj, property))
  THEN MathMax(minValue, Get(obj, property))
  ELSE defaultValue

\* Utils.getNumber2
getNumber2(obj, obj2, property, minValue, defaultValue) ==
  IF IsNum(Get(obj, property))
  THEN MathMax(minValue, Get(obj, property))
  ELSE IF IsNum(Get(obj2, property))
       THEN MathMax(minValue, Get(obj2, property))
       ELSE defaultValue

\* inRange of _mapZoomChanged and of Utils.processZoomRangeAttr, for an
\* element that carries data-min-zoom and data-max-zoom and a whole zoom
InRange(elm, zoom) == JsGe(zoom, elm.minZoom) /\ JsGe(elm.maxZoom, zoom)

\* BaseControl._mapZoomChanged, its loop over the cards: fallbackIdx is the
\* rel of the card at _currentIdx when that card is in range of the zoom,
\* else of the first card in range, else undefined
FallbackIdx(c) ==
  IF \E i \in 1..Len(c._content.cards) :
       c._content.cards[i].rel = c._currentIdx /\ InRange(c._content.cards[i], c.zoom)
  THEN c._currentIdx
  ELSE IF \E i \in 1..Len(c._content.cards) : InRange(c._content.cards[i], c.zoom)
       THEN c._content.cards[CHOOSE i \in 1..Len(c._content.cards) :
                               /\ InRange(c._content.cards[i], c.zoom)
                               /\ \A j \in 1..(i - 1) : ~InRange(c._content.cards[j], c.zoom)].rel
       ELSE Undef

\* BaseControl._mapZoomChanged of a legend control, whose zoomBehavior is
\* 'hide'
_mapZoomChanged(c) ==
  IF c._content # Null /\ c._hasZoomableContent /\ c._currentIdx # FallbackIdx(c)
  THEN _setItemIndex(c, FallbackIdx(c))
  ELSE c

\* the legends array _createContent collects: a dynamic legend is replaced
\* by the descriptors parse returned for it (dynamicLg), none when parse
\* returned nothing; of is the legend of the options an entry stands for
RECURSIVE Expanded(_, _, _)
Expanded(legends, i, dynamicLg) ==
  IF i > Len(legends) THEN <<>>
  ELSE (IF legends[i].type = "dynamic"
        THEN [k \in 1..Len(dynamicLg) |-> [lg |-> dynamicLg[k], of |-> legends[i]]]
        ELSE <<[lg |-> legends[i], of |-> legends[i]]>>)
       \o Expanded(legends, i + 1, dynamicLg)

\* the cards _createContent makes of the collected legends: rel is the
\* position in the collected array
Cards(legends) ==
  [i \in 1..Len(legends) |->
     [rel |-> Num(i - 1), type |-> legends[i].lg.type, of |-> legends[i].of,
      minZoom |-> Get(legends[i].lg, "minZoom"), maxZoom |-> Get(legends[i].lg, "maxZoom")]]

\* a descriptor of a dynamic legend with a zoom range other than 0 to 24
HasZoomRange(legends) ==
  \E i \in 1..Len(legends) :
     /\ legends[i].of.type = "dynamic"
     /\ Get(legends[i].lg, "minZoom") # Num(0) \/ Get(legends[i].lg, "maxZoom") # Num(24)

\* LegendControl._createContent once the legends are collected
CreateContentOf(c, legends) ==
  IF Len(legends) > 0 /\ c._options.layout = "carousel"
  THEN setLegendIdx([c EXCEPT !._content = [cards |-> Cards(legends)],
                              !._hasZoomableContent = @ \/ HasZoomRange(legends)],
                    c._legendIdx)
  ELSE [c EXCEPT !._content = [cards |-> Cards(legends)],
                 !._hasZoomableContent = @ \/ HasZoomRange(legends)]

\* LegendControl._createContent; dynamicLg is what DynamicLegend.parse
\* returns for the dynamic legend of the options
_createContent(c, dynamicLg) ==
  CreateContentOf(c, Expanded(c._options.legends, 1, dynamicLg))

\* BaseControl._rebuildContainer of a control on the map
_rebuildContainer(c, dynamicLg) ==
  _mapZoomChanged(_setBtnState([_createContent(c, dynamicLg) EXCEPT !._btn = TRUE]))

\* BaseControl.onAdd
onAdd(c, dynamicLg) ==
  _mapZoomChanged(_rebuildContainer([c EXCEPT !._map = TRUE], dynamicLg))

\* the legends case of LegendControl.setOptions
SetLegends(c, val) ==
  setLegendIdx(
    [c EXCEPT !._options.legends = val,
              !._currentLegend = IF c._currentLegend # Null /\ c._currentLegend # Undef
                                    /\ indexOf(val, c._currentLegend) # Num(-1)
                                 THEN @ ELSE Null,
              !._legendIdx = IF c._currentLegend # Null /\ c._currentLegend # Undef
                                /\ indexOf(val, c._currentLegend) # Num(-1)
                             THEN indexOf(val, c._currentLegend) ELSE Num(0),
              !._hasZoomableContent = \E i \in 1..Len(val) : val[i].type = "dynamic",
              !._needsRebuild = TRUE],
    IF c._currentLegend # Null /\ c._currentLegend # Undef
       /\ indexOf(val, c._currentLegend) # Num(-1)
    THEN indexOf(val, c._currentLegend) ELSE Num(0))

\* the loop of LegendControl.setOptions over the keys of options: legends,
\* layout, and the keys of its default case
SetOwnLayout(c, options) ==
  IF "layout" \in DOMAIN options THEN [c EXCEPT !._options.layout = options.layout] ELSE c

SetOwnDefault(c, options) ==
  IF DOMAIN options \cap {"minimized", "showToggle"} # {}
  THEN [c EXCEPT !._needsRebuild = TRUE]
  ELSE c

SetOwnOptions(c, options) ==
  SetOwnDefault(SetOwnLayout(IF "legends" \in DOMAIN options
                             THEN SetLegends(c, options.legends)
                             ELSE c,
                             options),
                options)

\* BaseControl.setOptions, its steps in order: minimized, layout,
\* showToggle, and the rebuild
SetMinimized(c, options) ==
  IF "minimized" \in DOMAIN options /\ c._baseOptions.minimized # options.minimized
  THEN _setBtnState([c EXCEPT !._baseOptions.minimized = options.minimized])
  ELSE c

SetLayout(c, options) ==
  IF "layout" \in DOMAIN options /\ c._baseOptions.layout # options.layout
  THEN [c EXCEPT !._baseOptions.layout = options.layout, !._needsRebuild = TRUE]
  ELSE c

SetShowToggle(c, options) ==
  IF "showToggle" \in DOMAIN options /\ c._baseOptions.showToggle # options.showToggle
  THEN _setBtnState([c EXCEPT !._baseOptions.showToggle = options.showToggle])
  ELSE c

RebuildIfNeeded(c, dynamicLg) ==
  IF c._needsRebuild /\ c._map THEN _rebuildContainer(c, dynamicLg) ELSE c

BaseSetOptions(c, options, dynamicLg) ==
  RebuildIfNeeded(SetShowToggle(SetLayout(SetMinimized(c, options), options), options),
                  dynamicLg)

\* LegendControl.setOptions
setOptions(c, options, dynamicLg) ==
  BaseSetOptions(SetOwnOptions(c, options), options, dynamicLg)

\* a LegendControl once its field initialisers ran, before its constructor
\* calls setOptions; zoom is what this._map.getCamera().zoom returns
FieldDefaults ==
  [_options |-> [legends |-> <<>>, layout |-> "carousel"],
   _baseOptions |-> [layout |-> "carousel", showToggle |-> TRUE, minimized |-> FALSE],
   _legendIdx |-> Num(0), _currentLegend |-> Null, _currentIdx |-> Num(0),
   _hasZoomableContent |-> FALSE, _needsRebuild |-> FALSE,
   _map |-> FALSE, _btn |-> FALSE, _content |-> Null,
   ariaExpanded |-> Undef, events |-> <<>>, zoom |-> Num(10)]

\* new LegendControl(options)
NewLegendControl(options) == setOptions(FieldDefaults, options, <<>>)

\* the identifier focus in LegendControl.add is neither a parameter nor a
\* local: it is the focus function of the window, which is truthy
focusOfWindow == TRUE

\* the legend once LegendControl.add has set its minZoom and maxZoom
ZoomSet(legend) ==
  Put(Put(legend, "minZoom", getNumber(legend, "minZoom", Num(0), Num(0))),
      "maxZoom", getNumber(legend, "maxZoom", Num(0), Num(24)))

\* the branch of LegendControl.add for a legend that is not in the control
AddNew(c, legend, dynamicLg) ==
  _rebuildContainer(
    [c EXCEPT !._options.legends = Append(@, ZoomSet(legend)),
              !._legendIdx = IF focusOfWindow THEN Num(Len(c._options.legends)) ELSE @,
              !._currentLegend = IF focusOfWindow THEN ZoomSet(legend) ELSE @,
              !._hasZoomableContent =
                 @ \/ ZoomSet(legend).minZoom # Num(0) \/ ZoomSet(legend).maxZoom # Num(24)],
    dynamicLg)

\* LegendControl.add(legend, show)
add(c, legend, show, dynamicLg) ==
  IF indexOf(c._options.legends, legend) = Num(-1)
  THEN AddNew(c, legend, dynamicLg)
  ELSE IF show
       THEN setLegendIdx(c, indexOf(c._options.legends, legend))
       ELSE c

\* LegendControl.focus(legend)
focus(c, legend) ==
  IF indexOf(c._options.legends, legend) # Num(-1)
  THEN setLegendIdx(c, indexOf(c._options.legends, legend))
  ELSE c

\* the legend removed of the control by LegendControl.remove, which moves
\* the current legend one down when it is the one removed
Removed(c, idx) ==
  [c EXCEPT !._options.legends = splice(@, idx),
            !._legendIdx = IF c._legendIdx = idx
                           THEN Num(idx.n - 1)
                           ELSE @,
            !._currentLegend = IF c._legendIdx = idx
                               THEN IF Len(c._options.legends) > 1
                                    THEN Nth(c._options.legends, Num(idx.n - 1))
                                    ELSE Null
                               ELSE @]

\* LegendControl.remove(legend)
remove(c, legend, dynamicLg) ==
  IF JsLt(Num(-1), indexOf(c._options.legends, legend))
  THEN _rebuildContainer(Removed(c, indexOf(c._options.legends, legend)), dynamicLg)
  ELSE c

\* BaseControl._handledClicked on the handle of the card with this rel: the
\* active button of an accordion closes its card
_handledClicked(c, rel) ==
  _setItemIndex(c, IF c._baseOptions.layout = "accordion" /\ rel = c._currentIdx
                   THEN Num(-1)
                   ELSE rel)

(***************************************************************************)
(* The layer control.  A LayerControl is a record of its fields and of     *)
(* those of BaseControl; _options.legendControl is the legend control it   *)
(* is connected to, or Undef; layers are the user defined layers of its    *)
(* map with their options; generated is the layer group _getLayerGroup     *)
(* made for the content, which the inputs of that content are bound to.    *)
(* A state is addressed by the position g of its group in the groups of    *)
(* the content and its position k in the items of that group.              *)
(***************************************************************************)

\* Utils.getZoomRange of the layers with these ids; every layer has a
\* minZoom option and a maxZoom option that is not zero
RECURSIVE ZoomRangeOf(_, _, _, _)
ZoomRangeOf(layers, ids, i, zr) ==
  IF i > Len(layers) THEN zr
  ELSE ZoomRangeOf(layers, ids, i + 1,
         IF \E j \in 1..Len(ids) : ids[j] = layers[i].id
         THEN [minZoom |-> MathMin(layers[i].minZoom, zr.minZoom),
               maxZoom |-> MathMax(layers[i].maxZoom, zr.maxZoom)]
         ELSE zr)

getZoomRange(layers, ids) ==
  IF Len(ids) > 0
  THEN IF JsLt(ZoomRangeOf(layers, ids, 1, [minZoom |-> Num(24), maxZoom |-> Num(0)]).maxZoom,
               ZoomRangeOf(layers, ids, 1, [minZoom |-> Num(24), maxZoom |-> Num(0)]).minZoom)
       THEN [minZoom |-> ZoomRangeOf(layers, ids, 1, [minZoom |-> Num(24), maxZoom |-> Num(0)]).maxZoom,
             maxZoom |-> ZoomRangeOf(layers, ids, 1, [minZoom |-> Num(24), maxZoom |-> Num(0)]).minZoom]
       ELSE ZoomRangeOf(layers, ids, 1, [minZoom |-> Num(24), maxZoom |-> Num(0)])
  ELSE [minZoom |-> Num(0), maxZoom |-> Num(24)]

\* layer.setOptions({ visible }) on the layers with these ids
SetVisibleOf(layers, ids, visible) ==
  [i \in 1..Len(layers) |->
     IF \E j \in 1..Len(ids) : ids[j] = layers[i].id
     THEN [layers[i] EXCEPT !.visible = visible]
     ELSE layers[i]]

\* LayerControl._setLayerStyle on each of the layers, for a style that may
\* carry visible
_setLayerStyle(layers, ids, style) ==
  IF "visible" \in DOMAIN style THEN SetVisibleOf(layers, ids, style.visible) ELSE layers

\* the loop of _getLayerGroup over the layers of the map: an item for each
\* layer, enabled when the layer is visible; in a radio or dropdown group
\* every layer after the first visible one is made invisible and its item
\* is not enabled.  The label of an item is the id of its layer.
RECURSIVE GroupItems(_, _, _, _)
GroupItems(layers, i, layout, hasSelection) ==
  IF i > Len(layers) THEN <<>>
  ELSE <<[layers |-> <<layers[i].id>>,
          label |-> layers[i].id,
          enabled |-> IF layout \in {"dropdown", "radio"} /\ hasSelection
                      THEN FALSE
                      ELSE layers[i].visible,
          enabledStyle |-> [visible |-> TRUE],
          disabledStyle |-> [visible |-> FALSE],
          minZoom |-> getNumber(layers[i], "minZoom", Num(0), Num(0)),
          maxZoom |-> getNumber(layers[i], "maxZoom", Num(0), Num(24))]>>
       \o GroupItems(layers, i + 1, layout,
                     hasSelection \/ (layout \in {"dropdown", "radio"} /\ layers[i].visible))

RECURSIVE GroupLayers(_, _, _, _)
GroupLayers(layers, i, layout, hasSelection) ==
  IF i > Len(layers) THEN <<>>
  ELSE <<IF layout \in {"dropdown", "radio"} /\ hasSelection
         THEN [layers[i] EXCEPT !.visible = FALSE]
         ELSE layers[i]>>
       \o GroupLayers(layers, i + 1, layout,
                      hasSelection \/ (layout \in {"dropdown", "radio"} /\ layers[i].visible))

\* the end of _getLayerGroup: a radio or dropdown group with no visible
\* layer enables its first item and shows its layer
FirstEnabled(items, layout) ==
  IF layout \in {"dropdown", "radio"} /\ \A i \in 1..Len(items) : ~items[i].enabled
  THEN [items EXCEPT ![1].enabled = TRUE]
  ELSE items

FirstVisible(layers, layout) ==
  IF layout \in {"dropdown", "radio"} /\ \A i \in 1..Len(layers) : ~layers[i].visible
  THEN [layers EXCEPT ![1].visible = TRUE]
  ELSE layers

\* LayerControl._getLayerGroup(dynamicLayerGroup) on a control whose map has
\* these layers, none of them filtered: the layer group, or undefined.  A
\* property that an object does not have is written as undefined.
_getLayerGroup(dynamicLayerGroup, layers) ==
  IF "layout" \notin DOMAIN dynamicLayerGroup
  THEN Undef
  ELSE IF Len(layers) > 0
       THEN [layout |-> dynamicLayerGroup.layout,
             minZoom |-> Undef, maxZoom |-> Undef,
             items |-> FirstEnabled(GroupItems(layers, 1, dynamicLayerGroup.layout, FALSE),
                                    dynamicLayerGroup.layout)]
       ELSE Undef

\* the layers of the map once _getLayerGroup(dynamicLayerGroup) has run
LayersOfGroup(dynamicLayerGroup, layers) ==
  IF "layout" \notin DOMAIN dynamicLayerGroup
  THEN layers
  ELSE IF Len(layers) > 0
       THEN FirstVisible(GroupLayers(layers, 1, dynamicLayerGroup.layout, FALSE),
                         dynamicLayerGroup.layout)
       ELSE layers

\* a LayerControl once its field initialisers ran, before its constructor
\* calls setOptions; zoom is what this._map.getCamera().zoom returns and
\* layers what this._map.layers holds
LayerFieldDefaults ==
  [_options |-> [layout |-> "list", zoomBehavior |-> "disable", showToggle |-> TRUE,
                 minimized |-> FALSE, layerGroups |-> <<>>, dynamicLayerGroup |-> Undef,
                 legendControl |-> Undef],
   _baseOptions |-> [layout |-> "carousel", zoomBehavior |-> "hide", showToggle |-> TRUE,
                     minimized |-> FALSE],
   _stateCache |-> <<>>, _hasDynamic |-> FALSE, generated |-> Undef,
   _currentIdx |-> Num(0), _hasZoomableContent |-> FALSE, _needsRebuild |-> FALSE,
   _map |-> FALSE, _btn |-> FALSE, _content |-> Null,
   ariaExpanded |-> Undef, events |-> <<>>, zoom |-> Num(10), layers |-> <<>>]

\* the layer groups the content is made of: the generated one, spliced in
\* at index 0, and those of the options
LayerGroups(lc) ==
  IF lc.generated # Undef
  THEN <<lc.generated>> \o lc._options.layerGroups
  ELSE lc._options.layerGroups

\* an assignment to layer group g of the content
SetGroup(lc, g, lg) ==
  IF lc.generated # Undef
  THEN IF g = 1
       THEN [lc EXCEPT !.generated = lg]
       ELSE [lc EXCEPT !._options.layerGroups[g - 1] = lg]
  ELSE [lc EXCEPT !._options.layerGroups[g] = lg]

\* an assignment to state k of layer group g
SetState(lc, g, k, state) ==
  SetGroup(lc, g, [LayerGroups(lc)[g] EXCEPT !.items[k] = state])

\* LayerControl._getAllAzLayers(state, layerGroup): the ids of the layers
\* of the layer group and of the state; an id that is in both is listed
\* twice, which no use of the list tells apart
_getAllAzLayers(state, layerGroup) ==
  (IF "layers" \in DOMAIN layerGroup THEN layerGroup.layers ELSE <<>>)
  \o (IF "layers" \in DOMAIN state THEN state.layers ELSE <<>>)

\* enabled of _itemChanged: checked of an input, and for an option whether
\* it is the first selected option of its select (checked stands for
\* selected there)
EnabledOf(card, k) ==
  IF card.layout = "dropdown"
  THEN card.elms[k].checked /\ \A j \in 1..(k - 1) : ~card.elms[j].checked
  ELSE card.elms[k].checked

\* the legend of a state once _itemChanged has set its minZoom and then its
\* maxZoom, both read of 'minZoom'
ZoomOfState(l, state) ==
  [l EXCEPT !.minZoom = getNumber2(l, state, "minZoom", Num(0), Num(0)),
            !.maxZoom = getNumber2([l EXCEPT !.minZoom =
                                      getNumber2(l, state, "minZoom", Num(0), Num(0))],
                                   state, "minZoom", Num(0), Num(24))]

\* the loop of _itemChanged over the legends of the state, from legend i on
RECURSIVE ItemLegends(_, _, _, _, _, _)
ItemLegends(lc, g, k, i, enabled, focusLegend) ==
  IF i > Len(LayerGroups(lc)[g].items[k].legends)
  THEN lc
  ELSE ItemLegends(
         IF enabled
         THEN [SetState(lc, g, k,
                 [LayerGroups(lc)[g].items[k] EXCEPT !.legends[i] =
                    ZoomOfState(@, LayerGroups(lc)[g].items[k])])
               EXCEPT !._options.legendControl =
                 add(@, ZoomOfState(LayerGroups(lc)[g].items[k].legends[i],
                                    LayerGroups(lc)[g].items[k]),
                     (i = 1) /\ focusLegend, <<>>)]
         ELSE [lc EXCEPT !._options.legendControl =
                 remove(@, LayerGroups(lc)[g].items[k].legends[i], <<>>)],
         g, k, i + 1, enabled, focusLegend)

\* the removal of the legends of the old state in _updateStateCache
RECURSIVE RemoveLegends(_, _, _)
RemoveLegends(c, legends, i) ==
  IF i > Len(legends) THEN c
  ELSE RemoveLegends(remove(c, legends[i], <<>>), legends, i + 1)

\* the branch of _updateStateCache for an old state that is not the item:
\* old is the position of the old state in the items of the group
OldStateDisabled(lc, g, k, old) ==
  [SetState(lc, g, old, [LayerGroups(lc)[g].items[old] EXCEPT
                           !.enabled = ~LayerGroups(lc)[g].items[k].enabled])
   EXCEPT !.layers =
            IF "layers" \in DOMAIN LayerGroups(lc)[g].items[old]
            THEN _setLayerStyle(@, LayerGroups(lc)[g].items[old].layers,
                                IF ~LayerGroups(lc)[g].items[k].enabled
                                THEN LayerGroups(lc)[g].items[old].enabledStyle
                                ELSE LayerGroups(lc)[g].items[old].disabledStyle)
            ELSE @,
          !._options.legendControl =
            IF @ # Undef /\ "legends" \in DOMAIN LayerGroups(lc)[g].items[old]
            THEN RemoveLegends(@, LayerGroups(lc)[g].items[old].legends, 1)
            ELSE @,
          !._stateCache =
            IF LayerGroups(lc)[g].items[k].enabled THEN (g :> k) @@ @ ELSE @]

\* LayerControl._updateStateCache(item, layers, elm) for state k of group g.
\* The name of a radio group or select is made anew for each content, so
\* the cache is kept per group of the content.
_updateStateCache(lc, g, k) ==
  IF lc._content.cards[g].layout \in {"radio", "dropdown"}
  THEN IF g \in DOMAIN lc._stateCache /\ lc._stateCache[g] # k
       THEN OldStateDisabled(lc, g, k, lc._stateCache[g])
       ELSE IF g \notin DOMAIN lc._stateCache /\ LayerGroups(lc)[g].items[k].enabled
            THEN [lc EXCEPT !._stateCache = (g :> k) @@ @]
            ELSE lc
  ELSE lc

\* what _updateStateCache returns
OldStateOf(lc, g, k) ==
  IF /\ lc._content.cards[g].layout \in {"radio", "dropdown"}
     /\ g \in DOMAIN lc._stateCache /\ lc._stateCache[g] # k
     /\ LayerGroups(lc)[g].items[k].enabled
  THEN Num(lc._stateCache[g])
  ELSE Null

\* _itemChanged up to its call of _updateStateCache, for an input that is
\* not a range: the style of the state goes to its layers, its legends are
\* added to or removed of the legend control, enabled is set, and a style
\* that sets visible rebuilds the legend control
ItemStyled(lc, g, k, enabled, focusLegend) ==
  [(IF "legends" \in DOMAIN LayerGroups(lc)[g].items[k] /\ lc._options.legendControl # Undef
    THEN ItemLegends(lc, g, k, 1, enabled, focusLegend)
    ELSE lc)
   EXCEPT !.layers = _setLayerStyle(@, _getAllAzLayers(LayerGroups(lc)[g].items[k],
                                                       LayerGroups(lc)[g]),
                                    IF enabled
                                    THEN LayerGroups(lc)[g].items[k].enabledStyle
                                    ELSE LayerGroups(lc)[g].items[k].disabledStyle)]

ItemEnabled(lc, g, k, enabled) ==
  [SetState(lc, g, k, [LayerGroups(lc)[g].items[k] EXCEPT !.enabled = enabled])
   EXCEPT !._options.legendControl =
     IF @ # Undef
        /\ "visible" \in DOMAIN (IF enabled
                                 THEN LayerGroups(lc)[g].items[k].enabledStyle
                                 ELSE LayerGroups(lc)[g].items[k].disabledStyle)
     THEN _rebuildContainer(@, <<>>)
     ELSE @]

\* LayerControl._itemChanged(state, layers, layerGroup, elm, focusLegend)
\* for state k of group g and the element bound to it
_itemChanged(lc, g, k, focusLegend) ==
  _invokeEvent(
    _updateStateCache(
      ItemEnabled(ItemStyled(lc, g, k, EnabledOf(lc._content.cards[g], k), focusLegend),
                  g, k, EnabledOf(lc._content.cards[g], k)),
      g, k),
    [type |-> "statechanged", layerGroup |-> g, newState |-> k,
     oldState |-> OldStateOf(
                    ItemEnabled(ItemStyled(lc, g, k, EnabledOf(lc._content.cards[g], k),
                                           focusLegend),
                                g, k, EnabledOf(lc._content.cards[g], k)),
                    g, k)])

\* the layers of all states of a layer group, as _getAllAzLayers collects
\* them when no state is passed in
RECURSIVE AllStateLayers(_, _)
AllStateLayers(items, k) ==
  IF k > Len(items) THEN <<>>
  ELSE (IF "layers" \in DOMAIN items[k] THEN items[k].layers ELSE <<>>)
       \o AllStateLayers(items, k + 1)

\* the minZoom and maxZoom _createContent sets on a layer group
GroupZoom(lg, layers) ==
  [minZoom |-> getNumber2(lg, getZoomRange(layers, _getAllAzLayers(<<>>, lg)
                                                   \o AllStateLayers(lg.items, 1)),
                          "minZoom", Num(0), Num(0)),
   maxZoom |-> getNumber2(lg, getZoomRange(layers, _getAllAzLayers(<<>>, lg)
                                                   \o AllStateLayers(lg.items, 1)),
                          "maxZoom", Num(0), Num(24))]

\* the minZoom and maxZoom _createContent sets on a state of a layer group
\* whose zoom range is lgZoom
StateZoomed(state, lg, lgZoom, layers) ==
  [state EXCEPT
     !.minZoom = MathMax(getNumber2(state, getZoomRange(layers, _getAllAzLayers(state, lg)),
                                    "minZoom", Num(0), Num(0)),
                         lgZoom.minZoom),
     !.maxZoom = MathMin(getNumber2(state, getZoomRange(layers, _getAllAzLayers(state, lg)),
                                    "maxZoom", Num(0), Num(24)),
                         lgZoom.maxZoom)]

RECURSIVE StatesZoomed(_, _, _, _, _)
StatesZoomed(items, k, lg, lgZoom, layers) ==
  IF k > Len(items) THEN <<>>
  ELSE <<StateZoomed(items[k], lg, lgZoom, layers)>>
       \o StatesZoomed(items, k + 1, lg, lgZoom, layers)

GroupZoomed(lg, layers) ==
  [lg EXCEPT !.minZoom = GroupZoom(lg, layers).minZoom,
             !.maxZoom = GroupZoom(lg, layers).maxZoom,
             !.items = StatesZoomed(lg.items, 1, lg, GroupZoom(lg, layers), layers)]

\* hasZoomRange of _createContent once every layer group is processed
HasZoomRangeOf(lc) ==
  \/ lc.generated # Undef
  \/ \E g \in 1..Len(LayerGroups(lc)) :
       \/ LayerGroups(lc)[g].minZoom # Num(0) \/ LayerGroups(lc)[g].maxZoom # Num(24)
       \/ \E k \in 1..Len(LayerGroups(lc)[g].items) :
            /\ LayerGroups(lc)[g].items[k].minZoom # Num(0)
            /\ LayerGroups(lc)[g].items[k].maxZoom # Num(24)

\* the element _createChoiceGroup or _createDropdown makes for a state: an
\* input in a label, or an option.  checked is checked of the input or
\* selected of the option; minZoom, maxZoom and zoomBehavior are the
\* attributes Utils.setZoomRangeAttr writes on the label or option;
\* display is the style of the label or option; disabled is disabled of
\* the input or option and disabledText the class of the label or option
NewElm(lc, state) ==
  [checked |-> state.enabled, disabled |-> FALSE, display |-> "", disabledText |-> FALSE,
   minZoom |-> state.minZoom, maxZoom |-> state.maxZoom,
   zoomBehavior |-> IF "zoomBehavior" \in DOMAIN state
                    THEN state.zoomBehavior
                    ELSE lc._baseOptions.zoomBehavior]

\* a select that is not multiple once an option is appended to it: a
\* selected option clears the others, and with none selected the first is
Appended(elms, elm) ==
  IF elm.checked
  THEN [i \in 1..(Len(elms) + 1) |->
          IF i <= Len(elms) THEN [elms[i] EXCEPT !.checked = FALSE] ELSE elm]
  ELSE IF \E i \in 1..Len(elms) : elms[i].checked
       THEN Append(elms, elm)
       ELSE [Append(elms, elm) EXCEPT ![1].checked = TRUE]

\* the element of state k joins those of the card of its group
AppendElm(lc, g, k) ==
  [lc EXCEPT !._content.cards[g].elms =
     IF lc._content.cards[g].layout = "dropdown"
     THEN Appended(@, NewElm(lc, LayerGroups(lc)[g].items[k]))
     ELSE Append(@, NewElm(lc, LayerGroups(lc)[g].items[k]))]

\* the loop of _createChoiceGroup or _createDropdown from item k on: the
\* element is made, and _bindLayerState calls _itemChanged on it
RECURSIVE BindItems(_, _, _)
BindItems(lc, g, k) ==
  IF k > Len(LayerGroups(lc)[g].items) THEN lc
  ELSE BindItems(_itemChanged(AppendElm(lc, g, k), g, k, FALSE), g, k + 1)

\* the card _createContent makes for layer group g once its zoom range is
\* set; a layer group without layout is a group of checkboxes
CardOf(lg, g) ==
  [rel |-> Num(g - 1), minZoom |-> lg.minZoom, maxZoom |-> lg.maxZoom,
   layout |-> IF "layout" \in DOMAIN lg THEN lg.layout ELSE "checkbox",
   elms |-> <<>>]

\* the loop of _createContent over the layer groups, from group g on
RECURSIVE BuildGroups(_, _)
BuildGroups(lc, g) ==
  IF g > Len(LayerGroups(lc)) THEN lc
  ELSE BuildGroups(
         BindItems(
           [SetGroup(lc, g, GroupZoomed(LayerGroups(lc)[g], lc.layers))
            EXCEPT !._content.cards =
              Append(@, CardOf(GroupZoomed(LayerGroups(lc)[g], lc.layers), g))],
           g, 1),
         g + 1)

\* the start of _createContent: the layer group of the dynamicLayerGroup
\* option, for a control that is not connected to a legend control when it
\* has that option
WithGenerated(lc) ==
  IF lc._options.dynamicLayerGroup # Undef
  THEN [lc EXCEPT !.generated = _getLayerGroup(lc._options.dynamicLayerGroup, lc.layers),
                  !.layers = LayersOfGroup(lc._options.dynamicLayerGroup, lc.layers),
                  !._hasDynamic =
                     _getLayerGroup(lc._options.dynamicLayerGroup, lc.layers) # Undef]
  ELSE [lc EXCEPT !.generated = Undef]

\* the end of _createContent, when there is a layer group
ContentDone(lc) ==
  IF Len(LayerGroups(lc)) > 0
  THEN IF lc._options.layout = "carousel"
       THEN _setCardIdx([lc EXCEPT !._hasZoomableContent = HasZoomRangeOf(lc)], Num(0))
       ELSE [lc EXCEPT !._hasZoomableContent = HasZoomRangeOf(lc)]
  ELSE lc

\* LayerControl._createContent
Layer_createContent(lc) ==
  ContentDone(BuildGroups([WithGenerated(lc) EXCEPT !._content = [cards |-> <<>>],
                                                   !._stateCache = <<>>],
                          1))

\* Utils.processZoomRangeAttr on the label or option of a state: hidden or
\* shown when its zoomBehavior is 'hide'; otherwise the inputs and options
\* inside it are disabled or enabled, of which an option has none
processZoomRangeAttr(elm, layout, zoom) ==
  IF elm.zoomBehavior = "hide"
  THEN [elm EXCEPT !.display = IF InRange(elm, zoom) THEN "" ELSE "none"]
  ELSE [elm EXCEPT !.disabled = IF layout = "dropdown" THEN @ ELSE ~InRange(elm, zoom),
                   !.disabledText = ~InRange(elm, zoom)]

\* the loop of BaseControl._mapZoomChanged over the cards of a layer control
CardsProcessed(lc) ==
  [lc EXCEPT !._content.cards =
     [g \in 1..Len(@) |->
        [@[g] EXCEPT !.elms =
           [k \in 1..Len(@) |->
              processZoomRangeAttr(@[k], lc._content.cards[g].layout, lc.zoom)]]]]

\* BaseControl._mapZoomChanged of a layer control, whose _setItemIndex is
\* _setCardIdx
Layer_mapZoomChanged(lc) ==
  IF lc._content # Null /\ lc._hasZoomableContent
  THEN IF lc._baseOptions.zoomBehavior = "hide" /\ lc._currentIdx # FallbackIdx(lc)
       THEN _setCardIdx(CardsProcessed(lc), FallbackIdx(lc))
       ELSE CardsProcessed(lc)
  ELSE lc

\* BaseControl._rebuildContainer of a layer control on the map
Layer_rebuildContainer(lc) ==
  Layer_mapZoomChanged(_setBtnState([Layer_createContent(lc) EXCEPT !._btn = TRUE]))

\* LayerControl.onAdd
Layer_onAdd(lc) ==
  Layer_mapZoomChanged(Layer_rebuildContainer([lc EXCEPT !._map = TRUE]))

\* the zoomBehavior case of BaseControl.setOptions
SetZoomBehavior(c, options) ==
  IF "zoomBehavior" \in DOMAIN options
  THEN [c EXCEPT !._baseOptions.zoomBehavior = options.zoomBehavior, !._needsRebuild = TRUE]
  ELSE c

\* new LayerControl(options): setOptions is called with the options laid
\* over the defaults, before the control is on a map
NewLayerControl(options) ==
  SetShowToggle(
    SetLayout(
      SetMinimized(
        SetZoomBehavior(
          [LayerFieldDefaults EXCEPT
             !._options = ObjectAssign(@, options), !._needsRebuild = TRUE],
          ObjectAssign(LayerFieldDefaults._options, options)),
        ObjectAssign(LayerFieldDefaults._options, options)),
      ObjectAssign(LayerFieldDefaults._options, options)),
    ObjectAssign(LayerFieldDefaults._options, options))

(***************************************************************************)
(* The state machine: a layer of the map, the settings of the dynamic      *)
(* legend that names it, and the outcome of the calls of                   *)
(* DynamicLegend.parse the legend control makes.                           *)
(***************************************************************************)
VARIABLES layer, settings, result, prevResult, parses, control, layerControl

vars == <<layer, settings, result, prevResult, parses, control, layerControl>>

NoResult == [done |-> FALSE]

\* the legend control parse is called with: its map, with the image sprite
\* and the layers, and its resx option
LegendControlOf(l) ==
  [_map |-> [userImages |-> UserImages, layers |-> [i \in {l.id.s} |-> l]],
   resx |-> [k \in {} |-> <<>>]]

\* the DynamicLegendType parse is called with
LegendTypeOf(st, l) ==
  [layer |-> CASE st.layerRef = "instance" -> l
               [] st.layerRef = "id" -> l.id
               [] OTHER -> S1("missing"),
   subtitle |-> st.subtitle, footer |-> st.footer,
   subtitleFallback |-> st.subtitleFallback, footerFallback |-> st.footerFallback,
   cssClass |-> st.cssClass, defaultCategory |-> st.defaultCategory,
   defaultGradient |-> st.defaultGradient, defaultImage |-> st.defaultImage]

Init ==
  /\ \E sc \in Scenarios : layer = sc.layer /\ settings = sc.settings
  /\ result = NoResult
  /\ prevResult = NoResult
  /\ parses = 0
  /\ control = FieldDefaults
  /\ layerControl = LayerFieldDefaults

\* LayerAfterParse with the shape override of parse written to the options
\* of the layer
LayerAfterParseOverridesOpt(l, r) ==
  [l EXCEPT !.hooked = @ \/ r.hooked,
            !.opt = IF Len(r.calls) > 0 THEN Put(@, "shape", S1("line")) ELSE @]

\* what a call of parse leaves of the layer: the options are only read, and
\* an OgcMapLayer gets its onActiveLayersChanged assigned
LayerAfterParse(l, r) == [l EXCEPT !.hooked = @ \/ r.hooked]

\* the outcome of a call of parse that returned r: the exception, or the
\* returned descriptors
ResultOf(r) ==
  [done |-> TRUE, threw |-> r.threw, calls |-> r.calls,
   legends |-> IF r.threw THEN <<>> ELSE r.legends]

\* the legend control calls DynamicLegend.parse(legendType, legendControl)
Parse ==
  /\ parses < 2
  /\ \E r \in {parse(LegendTypeOf(settings, layer), LegendControlOf(layer))} :
       /\ result' = ResultOf(r)
       /\ layer' = LayerAfterParse(layer, r)
  /\ prevResult' = result
  /\ parses' = parses + 1
  /\ UNCHANGED <<settings, control, layerControl>>

\* layer.setOptions({ visible: b })
SetVisible(b) ==
  /\ layer.hasGetOptions
  /\ layer.opt.visible # Bool(b)
  /\ layer' = [layer EXCEPT !.opt.visible = Bool(b)]
  /\ result' = NoResult
  /\ prevResult' = NoResult
  /\ parses' = 0
  /\ UNCHANGED <<settings, control, layerControl>>

Next == Parse \/ \E b \in BOOLEAN : SetVisible(b)

Spec == Init /\ [][Next]_vars

(***************************************************************************)
(* The legend control on a map.  The page constructs the control with its  *)
(* options, adds it to the map, and then calls its methods and clicks its  *)
(* toggle button, its container and the handles of its cards.  The one     *)
(* dynamic legend names the layer; result holds what DynamicLegend.parse   *)
(* returns for it, which _createContent turns into cards.  control.events  *)
(* holds the events the last call emitted.                                 *)
(***************************************************************************)
\* the legends the page uses: two html legends and the dynamic legend of
\* the layer, with the zoom range add and setOptions would default them to
HtmlLegend(id) == [type |-> "html", id |-> id, minZoom |-> Num(0), maxZoom |-> Num(24)]

TheDynamicLegend ==
  [type |-> "dynamic", id |-> "dynamic", minZoom |-> Num(0), maxZoom |-> Num(24)]

LegendsTried == {HtmlLegend("html1"), HtmlLegend("html2"), TheDynamicLegend}

\* the layers of the dynamic legend: two descriptors, one, and none
ControlLayers ==
  { BubbleLayer(ColorMatch(GetRevenue), ScaleStep),
    HeatMapLayer(ColorGradient(GetRevenue)),
    [HeatMapLayer(ColorGradient(GetRevenue)) EXCEPT !.opt.visible = Bool(FALSE)] }

NoOptions == [k \in {} |-> Undef]

\* the options the control is constructed with
ConstructorOptions ==
  { NoOptions,
    [legends |-> <<TheDynamicLegend>>],
    [legends |-> <<HtmlLegend("html1"), TheDynamicLegend>>],
    [legends |-> <<HtmlLegend("html1")>>, layout |-> "list"] }

\* the options setOptions is called with
OptionsTried ==
  { [minimized |-> b] : b \in BOOLEAN } \cup { [showToggle |-> b] : b \in BOOLEAN }
    \cup { [layout |-> l] : l \in {"carousel", "accordion", "list"} }
    \cup { [legends |-> <<TheDynamicLegend, HtmlLegend("html1")>>],
           [legends |-> <<HtmlLegend("html2"), HtmlLegend("html1")>>] }

ControlInit ==
  /\ layer \in ControlLayers
  /\ settings = DefaultSettings
  /\ \E r \in {parse(LegendTypeOf(settings, layer), LegendControlOf(layer))} :
       result = ResultOf(r)
  /\ prevResult = NoResult
  /\ parses = 0
  /\ \E options \in ConstructorOptions : control = NewLegendControl(options)
  /\ layerControl = LayerFieldDefaults

\* a call starts with no event emitted
Called(c) == [c EXCEPT !.events = <<>>]

\* map.controls.add(control)
OnAdd ==
  /\ ~control._map
  /\ control' = onAdd(Called(control), result.legends)
  /\ UNCHANGED <<layer, settings, result, prevResult, parses, layerControl>>

\* control.setOptions(options)
SetOptions(options) ==
  /\ control' = setOptions(Called(control), options, result.legends)
  /\ UNCHANGED <<layer, settings, result, prevResult, parses, layerControl>>

\* a click on the toggle button, which is displayed while the control is
\* expanded and showToggle is set
Toggle ==
  /\ control._map /\ control._btn
  /\ control._baseOptions.showToggle /\ control.ariaExpanded = Bool(TRUE)
  /\ control' = _toggle(Called(control))
  /\ UNCHANGED <<layer, settings, result, prevResult, parses, layerControl>>

\* a click on the container of the control
ContentBtnClicked ==
  /\ control._map
  /\ control' = _contentBtnClicked(Called(control))
  /\ UNCHANGED <<layer, settings, result, prevResult, parses, layerControl>>

\* control.add(legend, show) on a control that is on the map
Add(legend, show) ==
  /\ control._map
  /\ control' = add(Called(control), legend, show, result.legends)
  /\ UNCHANGED <<layer, settings, result, prevResult, parses, layerControl>>

\* control.remove(legend) on a control that is on the map
Remove(legend) ==
  /\ control._map
  /\ control' = remove(Called(control), legend, result.legends)
  /\ UNCHANGED <<layer, settings, result, prevResult, parses, layerControl>>

\* control.focus(legend)
Focus(legend) ==
  /\ control' = focus(Called(control), legend)
  /\ UNCHANGED <<layer, settings, result, prevResult, parses, layerControl>>

\* the indexes setLegendIdx is called with
IdxTried == {Num(i) : i \in -1..3}

\* control.setLegendIdx(idx)
SetLegendIdx(idx) ==
  /\ control' = setLegendIdx(Called(control), idx)
  /\ UNCHANGED <<layer, settings, result, prevResult, parses, layerControl>>

\* a click on the carousel dot or accordion button of a card
HandledClicked ==
  /\ control._content # Null
  /\ control._baseOptions.layout \in {"carousel", "accordion"}
  /\ \E i \in 1..Len(control._content.cards) :
       control' = _handledClicked(Called(control), control._content.cards[i].rel)
  /\ UNCHANGED <<layer, settings, result, prevResult, parses, layerControl>>

ControlNext ==
  \/ OnAdd
  \/ \E options \in OptionsTried : SetOptions(options)
  \/ Toggle
  \/ ContentBtnClicked
  \/ \E legend \in LegendsTried, show \in BOOLEAN : Add(legend, show)
  \/ \E legend \in LegendsTried : Remove(legend)
  \/ \E legend \in LegendsTried : Focus(legend)
  \/ \E idx \in IdxTried : SetLegendIdx(idx)
  \/ HandledClicked

ControlSpec == ControlInit /\ [][ControlNext]_vars

(***************************************************************************)
(* The layer control on a map: a legend control is added to the map, then  *)
(* a layer control that is connected to it or that has a                   *)
(* dynamicLayerGroup option; the user changes its inputs and zooms the     *)
(* map.                                                                    *)
(***************************************************************************)
\* a user defined layer of the map with its options
MapLayer(id, visible) ==
  [id |-> id, visible |-> visible, minZoom |-> Num(0), maxZoom |-> Num(24)]

\* the zoom ranges tried on a state: none, minZoom alone, maxZoom alone,
\* and both; a property that is not given is written as undefined
NoZoomRange == [minZoom |-> Undef, maxZoom |-> Undef]

ZoomRangesTried ==
  { NoZoomRange, [minZoom |-> Num(5), maxZoom |-> Undef],
    [minZoom |-> Undef, maxZoom |-> Num(15)], [minZoom |-> Num(5), maxZoom |-> Num(15)] }

\* a layer state of the options: it shows and hides the layer of its name
\* and has an HTML legend of its own
StateTried(id, enabled, zoomRange) ==
  [label |-> id, layers |-> <<id>>, enabled |-> enabled,
   enabledStyle |-> [visible |-> TRUE], disabledStyle |-> [visible |-> FALSE],
   legends |-> <<[type |-> "html", id |-> id, minZoom |-> Undef, maxZoom |-> Undef]>>,
   minZoom |-> zoomRange.minZoom, maxZoom |-> zoomRange.maxZoom]

\* the layerGroups option tried: a group of two states
LayerGroupsTried(layout, a, b, zoomRange) ==
  <<[layout |-> layout, minZoom |-> Undef, maxZoom |-> Undef,
     items |-> <<StateTried("A", a, zoomRange), StateTried("B", b, NoZoomRange)>>]>>

\* the dynamicLayerGroup options tried: one without layout, and one for
\* each layout
DynamicLayerGroupsTried ==
  { [groupTitle |-> "Layers"] }
    \cup { [groupTitle |-> "Layers", layout |-> layout] :
             layout \in {"checkbox", "radio", "dropdown"} }

\* the user defined layers tried with a dynamicLayerGroup option
MapLayersTried ==
  { <<>>, <<MapLayer("A", TRUE)>>, <<MapLayer("A", FALSE), MapLayer("B", TRUE)>> }

\* the zooms the map is moved to
ZoomsTried == { Num(3), Num(10), Num(20) }

LayerInit ==
  /\ layer \in {CHOOSE l \in ControlLayers : TRUE}
  /\ settings = DefaultSettings
  /\ result = NoResult
  /\ prevResult = NoResult
  /\ parses = 0
  /\ control = FieldDefaults
  /\ \/ \E layout \in {"checkbox", "radio", "dropdown"}, a \in BOOLEAN, b \in BOOLEAN,
             zoomRange \in ZoomRangesTried, zoomBehavior \in {"disable", "hide"} :
          \* of a radio group at most one state is enabled
          /\ ~(layout = "radio" /\ a /\ b)
          /\ layerControl =
               [NewLayerControl([layerGroups |-> LayerGroupsTried(layout, a, b, zoomRange),
                                 zoomBehavior |-> zoomBehavior,
                                 legendControl |-> onAdd(NewLegendControl(NoOptions), <<>>)])
                EXCEPT !.layers = <<MapLayer("A", TRUE), MapLayer("B", TRUE)>>]
     \/ \E dynamicLayerGroup \in DynamicLayerGroupsTried, layers \in MapLayersTried :
          layerControl =
            [NewLayerControl([dynamicLayerGroup |-> dynamicLayerGroup])
             EXCEPT !.layers = layers]

\* a call starts with no event emitted, of the layer control and of the
\* legend control it is connected to
LayerCalled(lc) ==
  [lc EXCEPT !.events = <<>>,
             !._options.legendControl = IF @ # Undef THEN Called(@) ELSE @]

\* map.controls.add(layerControl)
LayerOnAdd ==
  /\ ~layerControl._map
  /\ layerControl' = Layer_onAdd(LayerCalled(layerControl))
  /\ UNCHANGED <<layer, settings, result, prevResult, parses, control>>

\* LayerControl.refresh
Refresh ==
  /\ layerControl._map
  /\ layerControl' = Layer_rebuildContainer(LayerCalled(layerControl))
  /\ UNCHANGED <<layer, settings, result, prevResult, parses, control>>

\* an input or option the user can reach: displayed and not disabled
Reachable(elm) == elm.display = "" /\ ~elm.disabled

\* the user clicks checkbox k of group g: it toggles and its onchange runs
CheckboxChanged(g, k) ==
  /\ layerControl._content # Null
  /\ g \in 1..Len(layerControl._content.cards)
  /\ layerControl._content.cards[g].layout = "checkbox"
  /\ k \in 1..Len(layerControl._content.cards[g].elms)
  /\ Reachable(layerControl._content.cards[g].elms[k])
  /\ layerControl' =
       _itemChanged([LayerCalled(layerControl) EXCEPT
                       !._content.cards[g].elms[k].checked = ~@],
                    g, k, TRUE)
  /\ UNCHANGED <<layer, settings, result, prevResult, parses, control>>

\* the user clicks radio button k of group g, which was not checked: it is
\* checked, the others of its group are not, and its onchange runs
RadioChanged(g, k) ==
  /\ layerControl._content # Null
  /\ g \in 1..Len(layerControl._content.cards)
  /\ layerControl._content.cards[g].layout = "radio"
  /\ k \in 1..Len(layerControl._content.cards[g].elms)
  /\ Reachable(layerControl._content.cards[g].elms[k])
  /\ ~layerControl._content.cards[g].elms[k].checked
  /\ layerControl' =
       _itemChanged([LayerCalled(layerControl) EXCEPT
                       !._content.cards[g].elms =
                          [j \in 1..Len(@) |-> [@[j] EXCEPT !.checked = (j = k)]]],
                    g, k, TRUE)
  /\ UNCHANGED <<layer, settings, result, prevResult, parses, control>>

\* the listeners _bindLayerState added to the select for its options, run
\* in the order they were added, from that of option j on
RECURSIVE SelectChanged(_, _, _)
SelectChanged(lc, g, j) ==
  IF j > Len(lc._content.cards[g].elms) THEN lc
  ELSE SelectChanged(_itemChanged(lc, g, j, TRUE), g, j + 1)

\* the user selects option k of the dropdown of group g, which was not
\* selected: the change event of the select runs every listener
DropdownChanged(g, k) ==
  /\ layerControl._content # Null
  /\ g \in 1..Len(layerControl._content.cards)
  /\ layerControl._content.cards[g].layout = "dropdown"
  /\ k \in 1..Len(layerControl._content.cards[g].elms)
  /\ Reachable(layerControl._content.cards[g].elms[k])
  /\ ~layerControl._content.cards[g].elms[k].checked
  /\ layerControl' =
       SelectChanged([LayerCalled(layerControl) EXCEPT
                        !._content.cards[g].elms =
                           [j \in 1..Len(@) |-> [@[j] EXCEPT !.checked = (j = k)]]],
                     g, 1)
  /\ UNCHANGED <<layer, settings, result, prevResult, parses, control>>

\* the zoomend event of the map at zoom: the _mapZoomChanged of the legend
\* control, which was added first, then that of the layer control
ZoomEnd(zoom) ==
  /\ layerControl._map
  /\ zoom # layerControl.zoom
  /\ layerControl' =
       Layer_mapZoomChanged(
         [LayerCalled(layerControl) EXCEPT
            !.zoom = zoom,
            !._options.legendControl =
               IF @ # Undef THEN _mapZoomChanged([@ EXCEPT !.zoom = zoom]) ELSE @])
  /\ UNCHANGED <<layer, settings, result, prevResult, parses, control>>

\* the positions <<g, k>> of the elements of the content
ElmsOf(lc) ==
  IF lc._content # Null
  THEN UNION { { <<g, k>> : k \in 1..Len(lc._content.cards[g].elms) } :
                 g \in 1..Len(lc._content.cards) }
  ELSE {}

LayerNext ==
  \/ LayerOnAdd
  \/ Refresh
  \/ \E e \in ElmsOf(layerControl) : CheckboxChanged(e[1], e[2])
  \/ \E e \in ElmsOf(layerControl) : RadioChanged(e[1], e[2])
  \/ \E e \in ElmsOf(layerControl) : DropdownChanged(e[1], e[2])
  \/ \E zoom \in ZoomsTried : ZoomEnd(zoom)

LayerSpec == LayerInit /\ [][LayerNext]_vars

(***************************************************************************)
(* Properties                                                              *)
(***************************************************************************)
\* the _parseStyle calls of the last call of parse
Calls == IF result.done THEN result.calls ELSE <<>>

HasTag(exp, tag) == exp.t = "arr" /\ Len(exp.a) > 0 /\ exp.a[1] = S1(tag)

\* the expression has the arity the parser of its tag accepts
WellFormed(exp) ==
  /\ exp.t = "arr"
  /\ Len(exp.a) % 2 = 1
  /\ \/ (HasTag(exp, "step") \/ HasTag(exp, "match")) /\ Len(exp.a) >= 5
     \/ HasTag(exp, "interpolate") /\ Len(exp.a) >= 7

\* the positions (from 1) of the output values of a well formed expression
OutputPositions(exp) ==
  CASE HasTag(exp, "step") -> {k \in 3..Len(exp.a) : k % 2 = 1}
    [] HasTag(exp, "match") -> {k \in 4..Len(exp.a) : k % 2 = 0} \cup {Len(exp.a)}
    [] HasTag(exp, "interpolate") -> {k \in 5..Len(exp.a) : k % 2 = 1}
    [] OTHER -> {}

\* the names of the images the map can draw
KnownImages ==
  UserImages
    \cup { <<"marker", "-", c>> : c \in DOMAIN defaultColors }
    \cup { <<"pin", "-", c>> : c \in DOMAIN defaultColors }
    \cup { <<"pin", "-", "round", "-", c>> : c \in DOMAIN defaultColors }

\* the output value normalizes for the kind of style property
Normalizes(v, type) ==
  CASE type = "color" -> v.t = "str"
    [] type = "scale" -> v.t \in {"num", "nan", "inf"}
    [] type = "image" -> v.t = "str" /\ v.s \in KnownImages

AllNormalize(exp, type) ==
  \A k \in OutputPositions(exp) : Normalizes(exp.a[k], type)

IsDescriptor(v) == v # Undef /\ v # Thrown

\* C1: a step, match or interpolate expression with an output value (the
\* step base, a pair output, the match fallback) that does not normalize
\* for the kind of the property makes the parser return nothing, without
\* raising: no descriptor and no exception.
C1_AllOrNothing ==
  \A i \in DOMAIN Calls :
    LET c == Calls[i]
    IN  (WellFormed(c.exp) /\ ~AllNormalize(c.exp, c.type)) => c.ret = Undef

\* C2: an expression with an unrecognized tag, and an interpolate expression
\* whose method is cubic-bezier (whatever its stops), yields no descriptor
\* and raises no exception.
IsCubicBezier(exp) ==
  /\ HasTag(exp, "interpolate")
  /\ Len(exp.a) >= 2
  /\ HasTag(exp.a[2], "cubic-bezier")

UnknownTag(exp) ==
  /\ exp.t = "arr" /\ Len(exp.a) > 0 /\ exp.a[1].t = "str"
  /\ ~HasTag(exp, "step") /\ ~HasTag(exp, "match") /\ ~HasTag(exp, "interpolate")

C2_UnsupportedDeclines ==
  \A i \in DOMAIN Calls :
    LET c == Calls[i]
    IN  (UnknownTag(c.exp) \/ IsCubicBezier(c.exp)) => c.ret = Undef

\* C3: in a gradient descriptor made from a colour interpolate expression no
\* two stops that keep their label have offsets closer than 0.05, and every
\* stop of the expression is in the stop sequence with its colour and
\* offset, labelled or not.
Closer(a, b) ==
  JsLt(JsSub(a, b), minLabelOffset) /\ JsLt(JsSub(b, a), minLabelOffset)

GradientCalls ==
  { i \in DOMAIN Calls :
      /\ HasTag(Calls[i].exp, "interpolate")
      /\ Calls[i].type = "color"
      /\ IsDescriptor(Calls[i].ret)
      /\ Calls[i].ret.type = "gradient"
      /\ Calls[i].property # "strokeGradient"
      /\ layer.kind # "HeatMapLayer" }

C3_LabelSpacing ==
  \A i \in GradientCalls :
    LET stops == Calls[i].ret.stops
        exp   == Calls[i].exp.a
    IN  /\ \A j, k \in DOMAIN stops :
             (j < k /\ stops[j].label # Undef /\ stops[k].label # Undef)
               => ~Closer(stops[j].offset, stops[k].offset)
        /\ Len(stops) = (Len(exp) - 3) \div 2
        /\ \A j \in DOMAIN stops : stops[j].color = exp[2 * j + 3]

\* the text of the thresholds of the step expressions explored, as the
\* default locale writes numbers
Formatted(threshold) ==
  CASE threshold = Rat(1, 2) -> <<"0", ".", "5">>
    [] threshold = Num(1) -> <<"1">>
    [] threshold = Num(1000) -> <<"1", ",", "0", "0", "0">>

\* the field of a category item that holds the output value v of a property
\* of the given kind
ItemHolds(item, v, type) ==
  CASE type = "color" -> item.color = v
    [] type = "scale" -> item.shapeSize = (IF v = Num(0) THEN Rat(1, 100) ELSE v)
    [] type = "image" ->
         item.shape = (IF v.s \in UserImages THEN Str(<<"src:">> \o v.s)
                       ELSE Str(<<"template:",
                                  IF Len(v.s) = 5 THEN "pin-round" ELSE v.s[1],
                                  defaultColors[v.s[Len(v.s)]]>>))

\* the calls made for a well formed expression of the given tag whose
\* outputs all normalize
ValidCalls(tag) ==
  { i \in DOMAIN Calls :
      /\ HasTag(Calls[i].exp, tag)
      /\ WellFormed(Calls[i].exp)
      /\ AllNormalize(Calls[i].exp, Calls[i].type) }

\* the labels of a step category when the first label is lt \o t1 and the
\* last is gt \o tn
StepLabelled(c, lt, gt) ==
  LET exp   == c.exp.a
      n     == (Len(exp) - 3) \div 2
      items == c.ret.items
      t(k)  == Formatted(exp[2 * k + 2])
  IN  /\ IsDescriptor(c.ret)
      /\ c.ret.type = "category"
      /\ Len(items) = n + 1
      /\ \A k \in 1..(n + 1) : ItemHolds(items[k], exp[2 * k + 1], c.type)
      /\ items[1].label = Str(lt \o t(1))
      /\ items[n + 1].label = Str(gt \o t(n))
      /\ \A k \in 1..(n - 1) : items[k + 1].label = Str(t(k) \o <<" - ">> \o t(k + 1))

C5_MatchItems ==
  \A i \in ValidCalls("match") :
    LET c     == Calls[i]
        exp   == c.exp.a
        k     == (Len(exp) - 3) \div 2
        items == c.ret.items
    IN  /\ IsDescriptor(c.ret)
        /\ c.ret.type = "category"
        /\ Len(items) = k + 1
        /\ \A j \in 1..k : /\ items[j].label = exp[2 * j + 1]
                           /\ ItemHolds(items[j], exp[2 * j + 2], c.type)
        /\ items[k + 1].label = S1("no data")
        /\ ItemHolds(items[k + 1], exp[Len(exp)], c.type)

\* a match expression with two different keys has been parsed
C5_Witness ==
  \E i \in ValidCalls("match") :
    /\ Len(Calls[i].exp.a) >= 7
    /\ IsDescriptor(Calls[i].ret)
    /\ Calls[i].exp.a[3] # Calls[i].exp.a[5]

\* C6: every item of a category descriptor made for a scale property, the
\* synthetic midpoint of a two stop interpolation included, has a shapeSize
\* that is a number greater than 0.
C6_ShapeSizePositive ==
  \A i \in DOMAIN Calls :
    LET c == Calls[i]
    IN  (c.type = "scale" /\ IsDescriptor(c.ret) /\ c.ret.type = "category")
          => \A j \in DOMAIN c.ret.items :
               /\ c.ret.items[j].shapeSize.t = "num"
               /\ c.ret.items[j].shapeSize.n > 0

\* the size of the synthetic midpoint of the stops (x1, y1), (x2, y2): y1
\* when the inputs are equal, the mean of y1 and y2 for a linear method, and
\* (y1 * h + y2) / (h + 1) with h = base^((x2 - x1) / 2) for an exponential
\* one, which has no value for base 1
MidSize(method, x1, y1, x2, y2) ==
  LET base == method.a[2].n
      h    == IntPow(ISqrt(base), x2.n - x1.n)
  IN  IF x1 = x2 THEN y1
      ELSE IF HasTag(method, "linear") THEN Rat(y1.n + y2.n, 2)
      ELSE IF base = 1 THEN NaN
      ELSE Rat(y1.n * h + y2.n, h + 1)

ScaleInterpolations ==
  { i \in ValidCalls("interpolate") :
      /\ Calls[i].type = "scale"
      /\ (HasTag(Calls[i].exp.a[2], "linear") \/ HasTag(Calls[i].exp.a[2], "exponential")) }

\* C7: a scale interpolation with exactly two stops and a linear or
\* exponential method gives 3 items, the two stops and between them a
\* synthetic item labelled (x1 + x2) / 2 whose size is
\* y1 + f(midpoint) * (y2 - y1), 30 for the stops (0, 10), (10, 50) and a
\* linear method; with three or more stops the items are the stops.
C7_Midpoint ==
  \A i \in ScaleInterpolations :
    LET c     == Calls[i]
        exp   == c.exp.a
        n     == (Len(exp) - 3) \div 2
        items == c.ret.items
    IN  /\ IsDescriptor(c.ret)
        /\ c.ret.type = "category"
        /\ IF n = 2
           THEN /\ Len(items) = 3
                /\ items[1].label = exp[4] /\ ItemHolds(items[1], exp[5], "scale")
                /\ items[3].label = exp[6] /\ ItemHolds(items[3], exp[7], "scale")
                /\ items[2].label = Rat(exp[4].n + exp[6].n, 2)
                /\ items[2].shapeSize = MidSize(exp[2], exp[4], exp[5], exp[6], exp[7])
                /\ c.exp = ScaleInterpolate => items[2].shapeSize = Num(30)
           ELSE /\ Len(items) = n
                /\ \A k \in 1..n : /\ items[k].label = exp[2 * k + 2]
                                   /\ ItemHolds(items[k], exp[2 * k + 3], "scale")

\* a two stop exponential scale interpolation over different inputs and
\* outputs has been parsed
C7_Witness ==
  \E i \in ScaleInterpolations :
    LET exp == Calls[i].exp.a
    IN  /\ Len(exp) = 7
        /\ exp[2] = Exponential(4)
        /\ exp[4] # exp[6]
        /\ exp[5] # exp[7]
        /\ IsDescriptor(Calls[i].ret)

\* the property name of the input getter of an expression
GetterName(exp) ==
  LET input == IF HasTag(exp, "interpolate") THEN exp.a[3] ELSE exp.a[2]
  IN  IF HasTag(input, "get") /\ Len(input.a) >= 2 /\ input.a[2].t = "str"
      THEN input.a[2].s ELSE <<>>

MetaText(key) == IF key \in DOMAIN layer.metadata THEN layer.metadata[key] ELSE <<>>

\* what the fallback method finds, the empty text when it finds nothing
SubtitleFound(method, exp) ==
  CASE method = S1("auto") ->
         IF MetaText(<<"title">>) # <<>> THEN MetaText(<<"title">>)
         ELSE MetaText(<<"subtitle">>)
    [] method = S1("expression") -> GetterName(exp)
    [] OTHER -> MetaText(method.s)

\* C8: an explicit subtitle wins; without one, 'none' gives no subtitle and
\* every other method ('auto', 'expression', a metadata key) gives what the
\* method finds or, when it finds nothing, the layer id.
C8_SubtitleFallsBackToId ==
  \A i \in DOMAIN Calls :
    LET c      == Calls[i]
        method == IF settings.subtitleFallback = Undef THEN S1("auto")
                  ELSE settings.subtitleFallback
        found  == SubtitleFound(method, c.exp)
    IN  IsDescriptor(c.ret) =>
          c.ret.subtitle =
            (IF settings.subtitle # Undef /\ settings.subtitle.s # <<>>
             THEN settings.subtitle
             ELSE IF method = S1("none") THEN Undef
             ELSE IF found # <<>> THEN Str(found)
             ELSE layer.id)

Parsed(kind) ==
  /\ result.done
  /\ ~result.threw
  /\ layer.kind = kind
  /\ layer.opt.visible = Bool(TRUE)

\* the properties of the _parseStyle calls, in call order
CallProperties == [i \in DOMAIN Calls |-> Calls[i].property]

\* the calls that returned a descriptor, in call order
DescriptorCalls ==
  LET Returned(c) == IsDescriptor(c.ret)
  IN  SelectSeq(Calls, Returned)

\* the returned descriptor l is the one the call c made, whatever has been
\* overridden on it since
MadeBy(l, c) ==
  /\ l.type = c.ret.type
  /\ l.subtitle = c.ret.subtitle
  /\ IF l.type = "gradient" THEN l.stops = c.ret.stops
     ELSE IF c.property = "radius" THEN Len(l.items) = Len(c.ret.items)
     ELSE l.items = c.ret.items

\* the returned descriptors are those the calls made, in call order
LegendsInCallOrder ==
  /\ Len(result.legends) = Len(DescriptorCalls)
  /\ \A k \in DOMAIN DescriptorCalls : MadeBy(result.legends[k], DescriptorCalls[k])

\* C11: a visible line layer has its properties examined in the order
\* strokeGradient, strokeColor, strokeWidth; strokeColor is not examined,
\* and gives no descriptor, when strokeGradient gave one; the descriptor of
\* the gradient or colour precedes the one of strokeWidth in the result.
C11_LineOrder ==
  Parsed("LineLayer") =>
    /\ Len(Calls) >= 2
    /\ Calls[1].property = "strokeGradient"
    /\ IF IsDescriptor(Calls[1].ret)
       THEN CallProperties = <<"strokeGradient", "strokeWidth">>
       ELSE CallProperties = <<"strokeGradient", "strokeColor", "strokeWidth">>
    /\ LegendsInCallOrder

\* a line layer with a stroke gradient, a stroke colour expression and a
\* stroke width expression has been parsed into two descriptors
C11_Witness ==
  /\ Parsed("LineLayer")
  /\ IsDescriptor(Calls[1].ret)
  /\ layer.opt.strokeColor.t = "arr"
  /\ Len(result.legends) = 2
  /\ result.legends[1].type = "gradient"
  /\ result.legends[2].type = "category"

\* the last _parseStyle call of parse and the last descriptor parse returned
LastCall == Calls[Len(Calls)]

LastLegend == result.legends[Len(result.legends)]

\* the colour option that goes with the scale property of the layer
StaticColor ==
  IF layer.kind = "BubbleLayer" THEN Get(layer.opt, "color") ELSE Get(layer.opt, "strokeColor")

\* a scale category descriptor has been produced from the radius of a bubble
\* layer, or from the strokeWidth of a line layer whose strokeGradient gave no
\* descriptor, and the colour option of the layer is a plain string
ScaleCategoryWithStaticColor ==
  /\ \/ Parsed("BubbleLayer")
     \/ Parsed("LineLayer") /\ ~IsDescriptor(Calls[1].ret)
  /\ StaticColor.t = "str"
  /\ LastCall.property \in {"radius", "strokeWidth"}
  /\ IsDescriptor(LastCall.ret)
  /\ LastCall.ret.type = "category"

\* C12 as stated: the static colour is the colour of every item of the scale
\* category descriptor that had no colour.
C12_ItemColorsBackfilled ==
  ScaleCategoryWithStaticColor =>
    \A k \in DOMAIN LastLegend.items :
      LastLegend.items[k].color =
        IF Truthy(LastCall.ret.items[k].color) THEN LastCall.ret.items[k].color
        ELSE StaticColor

\* C12: the static colour is the color field of the scale category
\* descriptor, unless the descriptor has a colour already, and the color
\* fields of its items are as the parser left them.
C12_DescriptorColorBackfilled ==
  ScaleCategoryWithStaticColor =>
    /\ Get(LastLegend, "color") =
         IF Truthy(Get(LastCall.ret, "color")) THEN LastCall.ret.color ELSE StaticColor
    /\ \A k \in DOMAIN LastLegend.items :
         LastLegend.items[k].color = LastCall.ret.items[k].color

\* the stroke colour of a line layer has been written to the descriptor of
\* its strokeWidth, whose items have no colour
C12_Witness ==
  /\ ScaleCategoryWithStaticColor
  /\ layer.kind = "LineLayer"
  /\ Get(LastCall.ret, "color") = Undef
  /\ Get(LastLegend, "color") = StaticColor
  /\ \A k \in DOMAIN LastLegend.items : LastLegend.items[k].color = Undef

\* every field of the defaults is a field of the descriptor l, with the same
\* value
HasDefaults(l, defaults) ==
  defaults # Undef =>
    \A f \in DOMAIN defaults : f \in DOMAIN l /\ l[f] = defaults[f]

\* C13: every field set in defaultCategory, cssClass included, is on every
\* category descriptor parse returns with the same value, and every field
\* set in defaultGradient is on every gradient descriptor parse returns.
C13_DefaultsMerged ==
  (result.done /\ ~result.threw) =>
    \A k \in DOMAIN result.legends :
      /\ result.legends[k].type = "category" =>
           HasDefaults(result.legends[k], settings.defaultCategory)
      /\ result.legends[k].type = "gradient" =>
           HasDefaults(result.legends[k], settings.defaultGradient)

\* the stop inputs of an interpolate expression, in stop order
StopInputs(exp) == [k \in 1..((Len(exp.a) - 3) \div 2) |-> exp.a[2 * k + 2]]

StrictlyAscending(xs) == \A k \in 1..(Len(xs) - 1) : JsLt(xs[k], xs[k + 1])

\* the calls for a well formed colour interpolation of the given method
\* whose outputs are all colours
ColorInterpolations(method) ==
  { i \in DOMAIN Calls :
      /\ Calls[i].type = "color"
      /\ HasTag(Calls[i].exp, "interpolate")
      /\ WellFormed(Calls[i].exp)
      /\ HasTag(Calls[i].exp.a[2], method)
      /\ AllNormalize(Calls[i].exp, "color") }

\* C14: a colour linear interpolation over strictly ascending stop inputs
\* gives each stop the offset (input - first) / (last - first): 0 for the
\* first stop, 1 for the last, ascending in stop order, all in [0, 1];
\* 0, 0.5, 1 for the inputs 0, 5, 10.
C14_LinearOffsets ==
  \A i \in ColorInterpolations("linear") :
    LET xs == StopInputs(Calls[i].exp)
        n  == Len(xs)
    IN  StrictlyAscending(xs) =>
          /\ IsDescriptor(Calls[i].ret)
          /\ Calls[i].ret.type = "gradient"
          /\ Len(Calls[i].ret.stops) = n
          /\ \A k \in 1..n :
               /\ Calls[i].ret.stops[k].offset = Rat(xs[k].n - xs[1].n, xs[n].n - xs[1].n)
               /\ ~JsLt(Calls[i].ret.stops[k].offset, Num(0))
               /\ ~JsLt(Num(1), Calls[i].ret.stops[k].offset)
          /\ Calls[i].ret.stops[1].offset = Num(0)
          /\ Calls[i].ret.stops[n].offset = Num(1)
          /\ \A k \in 1..(n - 1) :
               JsLt(Calls[i].ret.stops[k].offset, Calls[i].ret.stops[k + 1].offset)
          /\ xs = <<Num(0), Num(5), Num(10)>> =>
               [k \in 1..n |-> Calls[i].ret.stops[k].offset] = <<Num(0), Rat(1, 2), Num(1)>>

\* a linear colour interpolation over three ascending stop inputs that do
\* not start at 0 has been parsed
C14_Witness ==
  \E i \in ColorInterpolations("linear") :
    /\ StopInputs(Calls[i].exp) = <<Num(0), Num(10), Num(400)>>
    /\ IsDescriptor(Calls[i].ret)
    /\ Calls[i].ret.stops[2].offset = Rat(1, 40)

\* the calls for a well formed interpolation, linear or exponential, whose
\* first and last stop inputs are equal
FlatInterpolations ==
  { i \in DOMAIN Calls :
      /\ HasTag(Calls[i].exp, "interpolate")
      /\ WellFormed(Calls[i].exp)
      /\ (HasTag(Calls[i].exp.a[2], "linear") \/ HasTag(Calls[i].exp.a[2], "exponential"))
      /\ Calls[i].exp.a[4] = Calls[i].exp.a[Len(Calls[i].exp.a) - 1]
      /\ AllNormalize(Calls[i].exp, Calls[i].type) }

\* C15: a linear or exponential interpolation whose first and last stop
\* inputs are equal gives every stop the offset 0, a number, neither NaN nor
\* infinite nor missing; the synthetic item of a two stop scale
\* interpolation, placed by the same function, has the size of the first
\* stop.
C15_FlatRangeOffsets ==
  \A i \in FlatInterpolations :
    /\ Calls[i].type = "color" =>
         /\ IsDescriptor(Calls[i].ret)
         /\ Calls[i].ret.type = "gradient"
         /\ Len(Calls[i].ret.stops) = Len(StopInputs(Calls[i].exp))
         /\ \A k \in DOMAIN Calls[i].ret.stops : Calls[i].ret.stops[k].offset = Num(0)
    /\ (Calls[i].type = "scale" /\ Len(Calls[i].exp.a) = 7) =>
         /\ IsDescriptor(Calls[i].ret)
         /\ Len(Calls[i].ret.items) = 3
         /\ Calls[i].ret.items[2].shapeSize = Calls[i].exp.a[5]

\* an exponential colour interpolation of three stops with equal inputs has
\* been parsed into a gradient
C15_Witness ==
  \E i \in FlatInterpolations :
    /\ Calls[i].type = "color"
    /\ HasTag(Calls[i].exp.a[2], "exponential")
    /\ Len(Calls[i].exp.a) = 9
    /\ IsDescriptor(Calls[i].ret)
    /\ Len(Calls[i].ret.stops) = 3

\* the layer is a symbol layer whose iconOptions.image is a plain string
\* that names a known image and whose iconOptions.size is a supported scale
\* expression
SymbolWithScaledImage ==
  /\ layer.kind = "SymbolLayer"
  /\ layer.opt.iconOptions.image.t = "str"
  /\ layer.opt.iconOptions.image.s \in KnownImages
  /\ WellFormed(layer.opt.iconOptions.size)
  /\ AllNormalize(layer.opt.iconOptions.size, "scale")
  /\ ~IsCubicBezier(layer.opt.iconOptions.size)

\* C16: for a visible symbol layer whose iconOptions.image is a plain string
\* naming a known image and whose iconOptions.size is a supported scale
\* expression, parse returns a category descriptor made from
\* iconOptions.size whose shape is the image.
C16_SymbolSizeLegend ==
  (Parsed("SymbolLayer") /\ SymbolWithScaledImage) =>
    /\ Len(Calls) = 1
    /\ Calls[1].exp = layer.opt.iconOptions.size
    /\ Len(result.legends) = 1
    /\ result.legends[1].type = "category"
    /\ Get(result.legends[1], "shape") =
         _getValue(layer.opt.iconOptions.image, "image", LegendControlOf(layer)).shape

(***************************************************************************)
(* Properties of the legend control                                        *)
(***************************************************************************)
\* the events of this type the last call emitted
Emitted(type) ==
  { control.events[i] : i \in { j \in 1..Len(control.events) : control.events[j].type = type } }

\* the control is displayed within the map with its toggle button
DisplayedWithToggle == control._map /\ control._btn /\ control._baseOptions.showToggle

\* C17: every time a control displayed within the map is minimized or
\* expanded while showToggle is true (by the toggle button, by a click on
\* the minimized container, or by setOptions with a different minimized
\* value), the call emits a 'toggled' event whose minimized field is the
\* new minimized state.
C17_ToggledEmitted ==
  [][(/\ DisplayedWithToggle
      /\ control'._baseOptions.showToggle
      /\ control.ariaExpanded # Undef
      /\ control'.ariaExpanded # control.ariaExpanded)
     => \E i \in 1..Len(control'.events) :
          control'.events[i] =
            [type |-> "toggled", minimized |-> Bool(control'.ariaExpanded = Bool(FALSE))]]_vars

\* the legends of the options of the control
Legends == control._options.legends

\* C18: add(legend, show) with a legend that is already in the control
\* adds no second copy, leaves the legend list unchanged, and makes the
\* index of that legend the focused index, with the legend as the current
\* legend.
C18_AddExisting ==
  [][\A legend \in LegendsTried, show \in BOOLEAN :
       (indexOf(Legends, legend) # Num(-1) /\ Add(legend, show))
       => /\ control'._options.legends = Legends
          /\ control'._currentIdx = indexOf(Legends, legend)
          /\ control'._currentLegend = legend]_vars

\* C19: add(legend, show) with a legend that is not in the control appends
\* it once at the end of the legend list; when show is false the focused
\* index and the current legend are unchanged, and when show is true the
\* new legend is the current legend.
C19_AddNew ==
  [][\A legend \in LegendsTried, show \in BOOLEAN :
       (indexOf(Legends, legend) = Num(-1) /\ Add(legend, show))
       => /\ control'._options.legends = Append(Legends, legend)
          /\ ~show => /\ control'._currentIdx = control._currentIdx
                      /\ control'._currentLegend = control._currentLegend
          /\ show => control'._currentLegend = legend]_vars

\* C20: every 'legendfocused' event emitted while a card is put in view
\* has as legendIdx the index, in the legends of the options, of the legend
\* that card was made for, and as legend that legend.
C20_FocusedLegend ==
  \A e \in Emitted("legendfocused") :
     e.inView # Null =>
       /\ e.legend = e.inView
       /\ e.legendIdx = indexOf(Legends, e.inView)

\* the options of OptionsTried that carry a legends array
LegendsOptions == { options \in OptionsTried : "legends" \in DOMAIN options }

\* C21: after setOptions with a legends array on a control that is on the
\* map, in any layout: if the array contains the current legend, that
\* legend is still the current one and the focused index is its index in
\* the array; if it does not, the focused index is 0.
C21_FocusKept ==
  [][\A options \in LegendsOptions :
       (control._map /\ control._content # Null /\ SetOptions(options))
       => IF control._currentLegend \notin {Null, Undef}
             /\ indexOf(options.legends, control._currentLegend) # Num(-1)
          THEN /\ control'._currentLegend = control._currentLegend
               /\ control'._currentIdx = indexOf(options.legends, control._currentLegend)
          ELSE control'._currentIdx = Num(0)]_vars

(***************************************************************************)
(* Properties of the layer control                                         *)
(***************************************************************************)
\* the legends of the legend control a layer control is connected to
LegendsIn(lc) ==
  { lc._options.legendControl._options.legends[i] :
      i \in 1..Len(lc._options.legendControl._options.legends) }

\* C22: for a layer control connected to a legend control, once its content
\* is built and after every change of a checkbox, radio button or dropdown
\* by the user, each legend of a layer state is in the legend control if
\* and only if that state is enabled
C22_LegendsOfEnabled ==
  (layerControl._content # Null /\ layerControl._options.legendControl # Undef)
    => \A g \in 1..Len(LayerGroups(layerControl)) :
         \A k \in 1..Len(LayerGroups(layerControl)[g].items) :
           \A i \in 1..Len(LayerGroups(layerControl)[g].items[k].legends) :
             (LayerGroups(layerControl)[g].items[k].legends[i] \in LegendsIn(layerControl))
               <=> LayerGroups(layerControl)[g].items[k].enabled

\* C23: once the content is built of a dynamicLayerGroup option that gives
\* no layout, on a map with at least one user defined layer, there is a
\* generated layer group and its layout is 'checkbox'
C23_DefaultLayout ==
  (/\ layerControl._content # Null
   /\ layerControl._options.dynamicLayerGroup # Undef
   /\ "layout" \notin DOMAIN layerControl._options.dynamicLayerGroup
   /\ Len(layerControl.layers) > 0)
    => /\ layerControl.generated # Undef
       /\ layerControl.generated.layout = "checkbox"
       /\ \E g \in 1..Len(layerControl._content.cards) :
            layerControl._content.cards[g].layout = "checkbox"

\* the element of state k of group g follows the zoom: reachable when the
\* zoom is in the range of the state, otherwise disabled when the
\* zoomBehavior of the control is 'disable' and hidden when it is 'hide'
FollowsZoom(lc, g, k) ==
  IF InRange(LayerGroups(lc)[g].items[k], lc.zoom)
  THEN Reachable(lc._content.cards[g].elms[k])
  ELSE /\ lc._baseOptions.zoomBehavior = "disable" => lc._content.cards[g].elms[k].disabled
       /\ lc._baseOptions.zoomBehavior = "hide"
            => lc._content.cards[g].elms[k].display = "none"

\* C24: after each zoomend event, every layer state whose minZoom is not 0
\* or whose maxZoom is not 24 has its input disabled or hidden, as the
\* zoomBehavior says, when the zoom is outside its range, and enabled and
\* shown when the zoom is inside it
C24_ZoomBehavior ==
  [][\A zoom \in ZoomsTried :
       ZoomEnd(zoom)
       => \A g \in 1..Len(LayerGroups(layerControl')) :
            \A k \in 1..Len(LayerGroups(layerControl')[g].items) :
              (\/ LayerGroups(layerControl')[g].items[k].minZoom # Num(0)
               \/ LayerGroups(layerControl')[g].items[k].maxZoom # Num(24))
              => FollowsZoom(layerControl', g, k)]_vars

====
